---- MODULE Spec2Model ----
(***************************************************************************)
(* Verification model of the price calculator: the project registry, the   *)
(* ClearWay and DALRIS model evaluators, the presentation layer's          *)
(* formatting, the project-scoped cities API and the useCities hook.       *)
(***************************************************************************)
EXTENDS Integers, Sequences, FiniteSets, TLC

(***************************************************************************)
(* JavaScript numbers.  A number is the pair n/d: a finite value is a      *)
(* reduced fraction with d > 0, and the three non-finite values are        *)
(* Infinity = 1/0, -Infinity = -1/0 and NaN = 0/0.  Arithmetic follows     *)
(* IEEE-754 on these classes; finite results are exact (no rounding) and   *)
(* zero carries no sign.                                                   *)
(***************************************************************************)
Abs(i) == IF i < 0 THEN -i ELSE i

RECURSIVE Gcd(_, _)
Gcd(a, b) == IF b = 0 THEN a ELSE Gcd(b, a % b)

Frac(n, d) ==
  IF d = 0 THEN [n |-> (IF n > 0 THEN 1 ELSE IF n < 0 THEN -1 ELSE 0), d |-> 0]
  ELSE LET s == IF d < 0 THEN -1 ELSE 1
           g == Gcd(Abs(n), Abs(d))
       IN  [n |-> (s * n) \div g, d |-> (s * d) \div g]

Num(i)  == [n |-> i, d |-> 1]
NaN     == [n |-> 0, d |-> 0]
PosInf  == [n |-> 1, d |-> 0]
NegInf  == [n |-> -1, d |-> 0]

isNaN(v)    == v.d = 0 /\ v.n = 0
isFinite(v) == v.d # 0
Sgn(v)      == IF v.n > 0 THEN 1 ELSE IF v.n < 0 THEN -1 ELSE 0

\* a + b
Add(a, b) ==
  IF isNaN(a) \/ isNaN(b) THEN NaN
  ELSE IF ~isFinite(a) /\ ~isFinite(b) THEN (IF a.n = b.n THEN a ELSE NaN)
  ELSE IF ~isFinite(a) THEN a
  ELSE IF ~isFinite(b) THEN b
  ELSE LET g == Gcd(a.d, b.d)
       IN  Frac(a.n * (b.d \div g) + b.n * (a.d \div g), (a.d \div g) * b.d)

\* -a
Neg(a) == [n |-> -a.n, d |-> a.d]

\* a - b
Sub(a, b) == Add(a, Neg(b))

\* a * b
Mul(a, b) ==
  IF isNaN(a) \/ isNaN(b) THEN NaN
  ELSE IF ~isFinite(a) \/ ~isFinite(b)
       THEN (IF Sgn(a) * Sgn(b) > 0 THEN PosInf
             ELSE IF Sgn(a) * Sgn(b) < 0 THEN NegInf ELSE NaN)
  ELSE LET g1 == Gcd(Abs(a.n), b.d)
           g2 == Gcd(Abs(b.n), a.d)
       IN  Frac((a.n \div g1) * (b.n \div g2), (a.d \div g2) * (b.d \div g1))

\* a / b
Div(a, b) ==
  IF isNaN(a) \/ isNaN(b) THEN NaN
  ELSE IF ~isFinite(a) /\ ~isFinite(b) THEN NaN
  ELSE IF ~isFinite(a) THEN (IF (Sgn(a) < 0) # (Sgn(b) < 0) THEN NegInf ELSE PosInf)
  ELSE IF ~isFinite(b) THEN Num(0)
  ELSE IF b.n = 0 THEN Frac(a.n, 0)
  ELSE Mul(a, Frac(b.d, b.n))

\* a < b, a <= b (false when either side is NaN)
Lt(a, b) ==
  /\ ~isNaN(a) /\ ~isNaN(b)
  /\ IF ~isFinite(a) /\ ~isFinite(b) THEN a.n < b.n
     ELSE LET g == IF isFinite(a) /\ isFinite(b) THEN Gcd(a.d, b.d) ELSE 1
          IN  a.n * (b.d \div g) < b.n * (a.d \div g)
Leq(a, b) == ~isNaN(a) /\ ~isNaN(b) /\ (a = b \/ Lt(a, b))

\* Math.abs(a)
Math_abs(a) == [n |-> Abs(a.n), d |-> a.d]

\* Math.min(a, b), Math.max(a, b): NaN when either argument is NaN
Math_min(a, b) == IF isNaN(a) \/ isNaN(b) THEN NaN ELSE IF Lt(b, a) THEN b ELSE a
Math_max(a, b) == IF isNaN(a) \/ isNaN(b) THEN NaN ELSE IF Lt(a, b) THEN b ELSE a


(***************************************************************************)
(* Math.exp.  Exact on the non-finite classes and at 0; overflows to       *)
(* Infinity above 709 and underflows to 0 below -745 as the IEEE double    *)
(* does.  In between the value is a decimal approximation with three       *)
(* fractional digits, kept strictly inside (0, 1) for negative arguments   *)
(* and above 1 for positive ones.  It is computed in fixed point as        *)
(* e^-y = (e^-(y/32))^32 with a four-term series for e^(y/32); arguments   *)
(* beyond 10 in magnitude saturate at the smallest (largest) grid value.   *)
(***************************************************************************)
RECURSIVE SquareN(_, _, _)
SquareN(a, S, k) == IF k = 0 THEN a ELSE SquareN((a * a) \div S, S, k - 1)

\* e^-y scaled by 40000, for finite y > 0
ExpNegFixed(y) ==
  LET S == 40000
  IN  IF Lt(Num(10), y) THEN 1
      ELSE LET zf == (y.n * S) \div (y.d * 32)
               t2 == (zf * zf) \div (2 * S)
               t3 == (t2 * zf) \div (3 * S)
               t4 == (t3 * zf) \div (4 * S)
               ez == S + zf + t2 + t3 + t4
               a  == SquareN((S * S) \div ez, S, 5)
           IN  IF a < 1 THEN 1 ELSE a

Clamp(i, lo, hi) == IF i < lo THEN lo ELSE IF i > hi THEN hi ELSE i

Math_exp(x) ==
  IF isNaN(x) THEN NaN
  ELSE IF x = PosInf THEN PosInf
  ELSE IF x = NegInf THEN Num(0)
  ELSE IF x.n = 0 THEN Num(1)
  ELSE IF x.n > 0
       THEN (IF Lt(Num(709), x) THEN PosInf
             ELSE Frac(Clamp(40000000 \div ExpNegFixed(x), 1001, 40000000), 1000))
  ELSE IF Lt(x, Num(-745)) THEN Num(0)
  ELSE Frac(Clamp((ExpNegFixed(Neg(x)) + 20) \div 40, 1, 999), 1000)

(***************************************************************************)
(* Entities.  A city is [id, name, num, tiers]: num maps the numeric       *)
(* parameter keys the object holds to their values; tiers is the value of  *)
(* the key "tiers": undefined (key absent), an array of hardware tiers, or *)
(* some other non-array value.  An array element is a tier object or null. *)
(***************************************************************************)
NoTiers        == [t |-> "undefined", items |-> <<>>]
TiersArray(xs) == [t |-> "array", items |-> xs]
TiersOther     == [t |-> "object", items |-> <<>>]

Tier(nm, c, m, u) ==
  [isObj |-> TRUE, name |-> nm, count |-> c, maintenance |-> m, unitCapex |-> u]
NullTier ==
  [isObj |-> FALSE, name |-> "", count |-> NaN, maintenance |-> NaN, unitCapex |-> NaN]

\* the keys of an entity other than id and name
ParamKeys(city) ==
  DOMAIN city.num \cup (IF city.tiers.t = "undefined" THEN {} ELSE {"tiers"})

\* city[key] read as a number: a missing key is undefined, NaN in arithmetic
Param(city, key) == IF key \in DOMAIN city.num THEN city.num[key] ELSE NaN

(***************************************************************************)
(* ClearWay model: constants, parameter metadata, presets.                 *)
(***************************************************************************)
K_FLEET == 100
T_IDEAL == 3

Meta(mn, mx, st, grp) == [min |-> mn, max |-> mx, step |-> st, group |-> grp]

clearway_PARAM_KEYS ==
  <<"L", "coverage_pct", "V", "d", "T", "E", "alpha", "delta_t", "Cm", "a", "b">>

clearway_PARAM_META ==
  [L            |-> Meta(Num(10), Num(5000), Num(10), "Infrastruktura"),
   coverage_pct |-> Meta(Num(0), Num(100), Num(1), "Infrastruktura"),
   V            |-> Meta(Num(1), Num(100), Num(1), "Sber dat"),
   d            |-> Meta(Num(10), Num(500), Num(5), "Sber dat"),
   T            |-> Meta(Num(1), Num(30), Num(1), "Sber dat"),
   E            |-> Meta(Num(100), Num(500000), Num(500), "IZS parametry"),
   alpha        |-> Meta(Frac(1, 100), Num(1), Frac(1, 100), "IZS parametry"),
   delta_t      |-> Meta(Frac(1, 2), Num(30), Frac(1, 2), "IZS parametry"),
   Cm           |-> Meta(Num(500), Num(50000), Num(500), "IZS parametry"),
   a            |-> Meta(Num(100), Num(10000), Num(100), "Cenovy model"),
   b            |-> Meta(Frac(1, 100), Frac(1, 2), Frac(1, 100), "Cenovy model")]

ClearwayPreset(nm, L, cov, V, d, T, E, alpha, delta_t, Cm, a, b) ==
  [name |-> nm,
   num  |-> [L |-> L, coverage_pct |-> cov, V |-> V, d |-> d, T |-> T, E |-> E,
             alpha |-> alpha, delta_t |-> delta_t, Cm |-> Cm, a |-> a, b |-> b],
   tiers |-> NoTiers]

clearway_PRESET_CITIES ==
  <<ClearwayPreset("Plzen", Num(420), Num(60), Num(5), Num(75), Num(3),
                   Num(15000), Frac(15, 100), Frac(3, 2), Num(5000), Num(1000), Frac(1, 10)),
    ClearwayPreset("Praha", Num(3800), Num(60), Num(18), Num(120), Num(3),
                   Num(110000), Frac(12, 100), Num(2), Num(5000), Num(1200), Frac(1, 10)),
    ClearwayPreset("Brno", Num(900), Num(60), Num(7), Num(80), Num(4),
                   Num(32000), Frac(13, 100), Frac(3, 2), Num(5000), Num(1000), Frac(1, 10)),
    ClearwayPreset("Ostrava", Num(850), Num(60), Num(6), Num(80), Num(5),
                   Num(28000), Frac(12, 100), Frac(3, 2), Num(5000), Num(950), Frac(1, 10)),
    ClearwayPreset("Olomouc", Num(380), Num(60), Num(3), Num(70), Num(7),
                   Num(10000), Frac(1, 10), Num(1), Num(5000), Num(900), Frac(1, 10)),
    ClearwayPreset("Liberec", Num(460), Num(60), Num(4), Num(70), Num(7),
                   Num(11000), Frac(1, 10), Num(1), Num(5000), Num(900), Frac(1, 10))>>

(***************************************************************************)
(* DALRIS model: parameter metadata, presets.                              *)
(***************************************************************************)
dalris_PARAM_KEYS == <<"L_base", "P_base_risk", "t_recovery">>

dalris_PARAM_META ==
  [L_base      |-> Meta(Num(100000), Num(5000000), Num(50000), "Platforma"),
   P_base_risk |-> Meta(Num(50000), Num(2000000), Num(50000), "SLA & Pohotovost"),
   t_recovery  |-> Meta(Num(4), Num(72), Num(4), "SLA & Pohotovost")]

SLA_OPTIONS == <<4, 12, 24, 48, 72>>

DalrisTiers(n1, n2, n3) ==
  TiersArray(<<Tier("Senzor (LoRaWAN)", Num(n1), Num(2500), Num(8000)),
               Tier("WiFi Info Point", Num(n2), Num(8000), Num(45000)),
               Tier("FM vysilaci uzel", Num(n3), Num(15000), Num(120000))>>)

DalrisPreset(nm, L_base, P_base_risk, t_recovery, tiers) ==
  [name |-> nm,
   num  |-> [L_base |-> L_base, P_base_risk |-> P_base_risk, t_recovery |-> t_recovery],
   tiers |-> tiers]

dalris_PRESET_CITIES ==
  <<DalrisPreset("Plzen", Num(500000), Num(200000), Num(24), DalrisTiers(30, 6, 2)),
    DalrisPreset("Praha", Num(2000000), Num(800000), Num(12), DalrisTiers(150, 30, 8)),
    DalrisPreset("Brno", Num(800000), Num(350000), Num(24), DalrisTiers(50, 10, 3))>>


(***************************************************************************)
(* Model evaluators.  A call either returns a result mapping or raises     *)
(* (a TypeError): [raised, m].                                             *)
(***************************************************************************)
Returned(m) == [raised |-> FALSE, m |-> m]
Raised      == [raised |-> TRUE, m |-> <<>>]

\* variants of the ClearWay computeModel with another CI, Qt or R
ClearwayVariant(city, CI, Qt, R) ==
  LET L       == Param(city, "L")
      Qf      == Sub(Num(1), Math_exp(Div(Neg(CI), Num(K_FLEET))))
      Q       == Mul(Mul(R, Qf), Qt)
      SV      == Mul(Mul(Mul(Param(city, "E"), Param(city, "alpha")), Param(city, "delta_t")),
                     Param(city, "Cm"))
      SV_real == Mul(SV, Q)
  IN  Returned([CI |-> CI, Qf |-> Qf, Qt |-> Qt, R |-> R, L_measured |-> Mul(R, L),
                Q |-> Q, SV |-> SV, SV_real |-> SV_real,
                P |-> Add(Mul(Param(city, "a"), L), Mul(Param(city, "b"), SV_real))])

ClearwayCI(city) ==
  Div(Mul(Mul(Param(city, "V"), Param(city, "d")), Num(365)), Param(city, "L"))

ClearwayQt(city) ==
  Math_min(Num(1), Math_exp(Div(Neg(Sub(Param(city, "T"), Num(T_IDEAL))), Num(T_IDEAL))))

ClearwayR(city) ==
  Math_min(Math_max(Div(Param(city, "coverage_pct"), Num(100)), Num(0)), Num(1))

\* variant: R is the uncovered share, 1 - coverage
clearway_computeModel_uncovered(city) ==
  ClearwayVariant(city, ClearwayCI(city), ClearwayQt(city), Sub(Num(1), ClearwayR(city)))

\* variant: Qt without the Math.min(1.0, ...)
clearway_computeModel_noMin(city) ==
  ClearwayVariant(city, ClearwayCI(city),
                  Math_exp(Div(Neg(Sub(Param(city, "T"), Num(T_IDEAL))), Num(T_IDEAL))),
                  ClearwayR(city))

\* variant: CI per day, without the factor 365
clearway_computeModel_dailyCI(city) ==
  ClearwayVariant(city, Div(Mul(Param(city, "V"), Param(city, "d")), Param(city, "L")),
                  ClearwayQt(city), ClearwayR(city))

\* variant: the division by L guarded, CI = 0 when L = 0
clearway_computeModel_guarded(city) ==
  ClearwayVariant(city,
                  IF Param(city, "L") = Num(0) THEN Num(0) ELSE ClearwayCI(city),
                  ClearwayQt(city), ClearwayR(city))

clearway_computeModel(city) ==
  LET L            == Param(city, "L")
      coverage_pct == Param(city, "coverage_pct")
      V            == Param(city, "V")
      d            == Param(city, "d")
      T            == Param(city, "T")
      E            == Param(city, "E")
      alpha        == Param(city, "alpha")
      delta_t      == Param(city, "delta_t")
      Cm           == Param(city, "Cm")
      a            == Param(city, "a")
      b            == Param(city, "b")
      CI         == Div(Mul(Mul(V, d), Num(365)), L)
      Qf         == Sub(Num(1), Math_exp(Div(Neg(CI), Num(K_FLEET))))
      Qt         == Math_min(Num(1), Math_exp(Div(Neg(Sub(T, Num(T_IDEAL))), Num(T_IDEAL))))
      R          == Math_min(Math_max(Div(coverage_pct, Num(100)), Num(0)), Num(1))
      L_measured == Mul(R, L)
      Q          == Mul(Mul(R, Qf), Qt)
      SV         == Mul(Mul(Mul(E, alpha), delta_t), Cm)
      SV_real    == Mul(SV, Q)
      P          == Add(Mul(a, L), Mul(b, SV_real))
  IN  Returned([CI |-> CI, Qf |-> Qf, Qt |-> Qt, R |-> R, L_measured |-> L_measured,
                Q |-> Q, SV |-> SV, SV_real |-> SV_real, P |-> P])

Array_isArray(v) == v.t = "array"

\* xs.reduce((sum, t) => sum + t.count * t[field], acc)
RECURSIVE reduce(_, _, _)
reduce(xs, field, acc) ==
  IF xs = <<>> THEN acc
  ELSE reduce(Tail(xs), field, Add(acc, Mul(Head(xs).count, Head(xs)[field])))

DEFAULT_TIERS ==
  <<Tier("Senzor (LoRaWAN)", Num(50), Num(2500), Num(8000)),
    Tier("WiFi Info Point", Num(10), Num(8000), Num(45000)),
    Tier("FM vysilaci uzel", Num(3), Num(15000), Num(120000))>>

\* the DALRIS result for given tiers and readiness premium, with `extra` added to the price
DalrisVariant(city, tiers, V_readiness, extra) ==
  IF \E i \in DOMAIN tiers : ~tiers[i].isObj THEN Raised
  ELSE LET totalMaintenance == reduce(tiers, "maintenance", Num(0))
           totalCAPEX       == reduce(tiers, "unitCapex", Num(0))
           P_OPEX == Add(Add(Add(Param(city, "L_base"), totalMaintenance), V_readiness),
                         Mul(extra, totalCAPEX))
       IN  Returned([V_readiness |-> V_readiness, totalMaintenance |-> totalMaintenance,
                     P_OPEX |-> P_OPEX, totalCAPEX |-> totalCAPEX, P |-> P_OPEX])

Readiness(city) ==
  Mul(Param(city, "P_base_risk"), Add(Num(1), Div(Num(24), Param(city, "t_recovery"))))

\* variant: city.tiers.reduce(...) without the Array.isArray guard
dalris_computeModel_unguarded(city) ==
  IF ~Array_isArray(city.tiers) THEN Raised
  ELSE DalrisVariant(city, city.tiers.items, Readiness(city), Num(0))

\* variant: DEFAULT_TIERS stand in for a missing tiers array
dalris_computeModel_defaultTiers(city) ==
  DalrisVariant(city, IF Array_isArray(city.tiers) THEN city.tiers.items ELSE DEFAULT_TIERS,
                Readiness(city), Num(0))

\* variant: the hardware investment is added to the yearly price
dalris_computeModel_capexInP(city) ==
  DalrisVariant(city, IF Array_isArray(city.tiers) THEN city.tiers.items ELSE <<>>,
                Readiness(city), Num(1))

\* variant: V_readiness = P_base_risk * (24 / t_recovery)
dalris_computeModel_noBase(city) ==
  DalrisVariant(city, IF Array_isArray(city.tiers) THEN city.tiers.items ELSE <<>>,
                Mul(Param(city, "P_base_risk"), Div(Num(24), Param(city, "t_recovery"))),
                Num(0))

\* variant: V_readiness = P_base_risk * (1 + t_recovery / 24)
dalris_computeModel_inverted(city) ==
  DalrisVariant(city, IF Array_isArray(city.tiers) THEN city.tiers.items ELSE <<>>,
                Mul(Param(city, "P_base_risk"), Add(Num(1), Div(Param(city, "t_recovery"), Num(24)))),
                Num(0))

dalris_computeModel(city) ==
  LET tiers == IF Array_isArray(city.tiers) THEN city.tiers.items ELSE <<>>
  IN  IF \E i \in DOMAIN tiers : ~tiers[i].isObj
      THEN Raised      \* t.count on null: TypeError inside the reduce callback
      ELSE LET V_readiness      == Mul(Param(city, "P_base_risk"),
                                       Add(Num(1), Div(Num(24), Param(city, "t_recovery"))))
               totalMaintenance == reduce(tiers, "maintenance", Num(0))
               P_OPEX           == Add(Add(Param(city, "L_base"), totalMaintenance), V_readiness)
               totalCAPEX       == reduce(tiers, "unitCapex", Num(0))
           IN  Returned([V_readiness |-> V_readiness, totalMaintenance |-> totalMaintenance,
                         P_OPEX |-> P_OPEX, totalCAPEX |-> totalCAPEX, P |-> P_OPEX])

(***************************************************************************)
(* Project definitions and the registry.                                   *)
(***************************************************************************)
Col(key, fmt, decimals) == [key |-> key, fmt |-> fmt, decimals |-> decimals]

clearwayProject ==
  [slug |-> "clearway", paramKeys |-> clearway_PARAM_KEYS,
   presetCities |-> clearway_PRESET_CITIES,
   paramGroups |-> <<"Infrastruktura", "Sber dat", "IZS parametry", "Cenovy model">>,
   hasCharts |-> TRUE, hasCompareColumns |-> TRUE,
   compareColumns |->
     <<Col("name", "text", 0), Col("L", "num", 0), Col("V", "num", 0), Col("T", "num", 0),
       Col("CI", "num", 1), Col("R", "pct", 0), Col("Qf", "pct", 0), Col("Q", "pct", 0),
       Col("SV_real", "czk", 0), Col("P", "czk", 0)>>]

dalrisProject ==
  [slug |-> "dalris", paramKeys |-> dalris_PARAM_KEYS,
   presetCities |-> dalris_PRESET_CITIES,
   paramGroups |-> <<"Platforma", "SLA & Pohotovost">>,
   hasCharts |-> FALSE, hasCompareColumns |-> TRUE,
   compareColumns |->
     <<Col("name", "text", 0), Col("L_base", "czk", 0), Col("P_base_risk", "czk", 0),
       Col("t_recovery", "num", 0), Col("V_readiness", "czk", 0),
       Col("totalMaintenance", "czk", 0), Col("P_OPEX", "czk", 0),
       Col("totalCAPEX", "czk", 0)>>]

PROJECT_REGISTRY == [clearway |-> clearwayProject, dalris |-> dalrisProject]

PROJECT_SLUGS == <<"clearway", "dalris">>

\* PROJECT_REGISTRY is an object literal: besides its own keys, a property
\* read finds what Object.prototype defines.
ObjectPrototypeKeys ==
  {"constructor", "toString", "toLocaleString", "valueOf", "hasOwnProperty",
   "isPrototypeOf", "propertyIsEnumerable", "__proto__", "__defineGetter__",
   "__defineSetter__", "__lookupGetter__", "__lookupSetter__"}

Undefined         == [kind |-> "undefined", slug |-> ""]
ProjectValue(s)   == [kind |-> "project", slug |-> s]
InheritedValue(s) == [kind |-> "inherited", slug |-> s]

getProject(slug) ==
  IF slug \in DOMAIN PROJECT_REGISTRY THEN ProjectValue(slug)
  ELSE IF slug \in ObjectPrototypeKeys THEN InheritedValue(slug)
  ELSE Undefined

\* !value
Falsy(v) == v.kind = "undefined"

paramMetaKeys(slug) ==
  IF slug = "clearway" THEN DOMAIN clearway_PARAM_META ELSE DOMAIN dalris_PARAM_META

\* project.computeModel(city)
computeModel(slug, city) ==
  IF slug = "clearway" THEN clearway_computeModel(city) ELSE dalris_computeModel(city)


(***************************************************************************)
(* Presentation layer: number formatting and the texts each view shows.    *)
(* A text is [str, scaled, decimals, unit]: str is the marker or literal   *)
(* shown for a non-finite value, or "digits" for a finite value rounded to *)
(* `decimals` fraction digits (scaled = value * 10^decimals, rounded half  *)
(* away from zero).                                                        *)
(***************************************************************************)
RECURSIVE Pow10(_)
Pow10(k) == IF k = 0 THEN 1 ELSE 10 * Pow10(k - 1)

\* v * 10^k rounded to an integer, for finite v; wide fractions are first
\* cut to six significant denominator digits
RoundScaled(v, k) ==
  LET f  == (v.d \div 1000000) + 1
      n  == Abs(v.n) \div f
      d  == IF v.d \div f = 0 THEN 1 ELSE v.d \div f
      q  == n \div d
      r  == n % d
      fr == (2 * r * Pow10(k) + d) \div (2 * d)
  IN  Sgn(v) * (q * Pow10(k) + fr)

Dash == [str |-> "-dash-", scaled |-> 0, decimals |-> 0, unit |-> ""]
Digits(v, k, unit) ==
  [str |-> "digits", scaled |-> RoundScaled(v, k), decimals |-> k, unit |-> unit]
Literal(v, unit) ==
  [str |-> (IF isNaN(v) THEN "NaN" ELSE IF v.n > 0 THEN "Infinity" ELSE "-Infinity"),
   scaled |-> 0, decimals |-> 0, unit |-> unit]

\* val.toLocaleString('cs-CZ', {minimumFractionDigits, maximumFractionDigits})
fNum(val, decimals) == IF ~isFinite(val) THEN Dash ELSE Digits(val, decimals, "")

\* val.toLocaleString('cs-CZ', {style: 'currency', currency: 'CZK', ...})
fCZK(val) == IF ~isFinite(val) THEN Dash ELSE Digits(val, 0, "CZK")

\* (val * 100).toFixed(1) + ' %'
fPct(val) == IF ~isFinite(val) THEN Dash ELSE Digits(Mul(val, Num(100)), 1, "%")

\* val.toFixed(digits): the literal Infinity / -Infinity / NaN for a non-finite val
toFixed(val, digits, unit) ==
  IF isFinite(val) THEN Digits(val, digits, unit) ELSE Literal(val, unit)

\* Math.round(x)
Math_round(x) == IF isFinite(x) THEN Num(RoundScaled(x, 0)) ELSE x

\* one shown derived value: where, the value, and the text it is shown as
Shown(site, value, text) == [site |-> site, value |-> value, text |-> text]

ClearwayResultCards(city, m) ==
  {Shown("card:CI", m.CI, fNum(m.CI, 2)),
   Shown("card:Qf", m.Qf, fPct(m.Qf)),
   Shown("card:Qt", m.Qt, fPct(m.Qt)),
   Shown("card:R", m.R, fPct(m.R)),
   Shown("card:R:sub", m.L_measured, fNum(Math_round(m.L_measured), 0)),
   Shown("card:Q", m.Q, fPct(m.Q)),
   Shown("card:SV", m.SV, fCZK(m.SV)),
   Shown("card:SV_real", m.SV_real, fCZK(m.SV_real)),
   Shown("card:P", m.P, fCZK(m.P)),
   Shown("card:P:sub", Mul(Param(city, "b"), m.SV_real),
         fCZK(Mul(Param(city, "b"), m.SV_real)))}

GenericResultCards(m) ==
  {Shown("card", m[key], IF key = "P" THEN fCZK(m[key]) ELSE fNum(m[key], 2)) :
     key \in DOMAIN m}

\* the two ReferenceLine labels of the first chart
ChartReferenceLabels(m) ==
  {Shown("chart:CI", m.CI, toFixed(m.CI, 1, "")),
   Shown("chart:Qt", m.Qt, toFixed(Mul(m.Qt, Num(100)), 0, "%"))}

formatValue(fmt, val, decimals) ==
  IF fmt = "czk" THEN fCZK(val)
  ELSE IF fmt = "pct" THEN fPct(val)
  ELSE fNum(val, decimals)

\* the numeric cells of the entity's row: the columns whose key the model computed
CompareCells(project, city, m) ==
  {Shown("compare", m[col.key], formatValue(col.fmt, m[col.key], col.decimals)) :
     col \in {project.compareColumns[i] : i \in {j \in DOMAIN project.compareColumns :
                                                  project.compareColumns[j].key \in DOMAIN m}}}

SidebarPrice(m) == {Shown("sidebar", m.P, fCZK(m.P))}

Views == {"calculator", "charts", "compare", "sidebar"}

\* what a view shows of the model result m of the entity
ViewShows(view, slug, city, m) ==
  IF view = "calculator"
    THEN (IF slug = "clearway" THEN ClearwayResultCards(city, m) ELSE GenericResultCards(m))
  ELSE IF view = "charts" THEN ChartReferenceLabels(m)
  ELSE IF view = "compare" THEN CompareCells(PROJECT_REGISTRY[slug], city, m)
  ELSE SidebarPrice(m)

(***************************************************************************)
(* Entity Store and the project-scoped cities API.  The store is the       *)
(* sequence of rows [slug, city]; a row's city id is the primary key.      *)
(***************************************************************************)
RowsOf(st, slug) == SelectSeq(st, LAMBDA row : row.slug = slug)

\* storageGet(slug): the entities of the project, in row order
storageGet(st, slug) ==
  LET rows == RowsOf(st, slug) IN [i \in DOMAIN rows |-> rows[i].city]

\* storageSet(slug, city): upsert by id
storageSet(st, slug, city) ==
  IF \E i \in DOMAIN st : st[i].city.id = city.id
  THEN [i \in DOMAIN st |->
          IF st[i].city.id = city.id THEN [slug |-> st[i].slug, city |-> city] ELSE st[i]]
  ELSE Append(st, [slug |-> slug, city |-> city])

\* storageDelete(slug, id)
storageDelete(st, slug, id) ==
  SelectSeq(st, LAMBDA row : ~(row.slug = slug /\ row.city.id = id))

\* an HTTP request to /api/{slug}/cities: method, body.city and query id (each
\* possibly missing), and which storage call of the handler throws (0: none)
Request(slug, method, hasCity, city, hasId, id, throwAt) ==
  [slug |-> slug, method |-> method, hasCity |-> hasCity, city |-> city,
   hasId |-> hasId, id |-> id, throwAt |-> throwAt]

\* a response, with the store it leaves and the storage calls the handler made
Response(status, isList, cities, st, reads, writes) ==
  [status |-> status, isList |-> isList, cities |-> cities, db |-> st,
   reads |-> reads, writes |-> writes]

handler(req, st) ==
  LET projectSlug == req.slug
      project     == getProject(projectSlug)
  IN  IF Falsy(project) THEN Response(404, FALSE, <<>>, st, 0, 0)
      ELSE IF req.method = "GET"
        THEN IF req.throwAt = 1 THEN Response(500, FALSE, <<>>, st, 1, 0)
             ELSE Response(200, TRUE, storageGet(st, projectSlug), st, 1, 0)
      ELSE IF req.method = "POST"
        THEN IF ~req.hasCity \/ req.city.id = "" THEN Response(400, FALSE, <<>>, st, 0, 0)
             ELSE IF req.throwAt = 1 THEN Response(500, FALSE, <<>>, st, 0, 1)
             ELSE LET st2 == storageSet(st, projectSlug, req.city)
                  IN  IF req.throwAt = 2 THEN Response(500, FALSE, <<>>, st2, 1, 1)
                      ELSE Response(200, TRUE, storageGet(st2, projectSlug), st2, 1, 1)
      ELSE IF req.method = "DELETE"
        THEN IF ~req.hasId \/ req.id = "" THEN Response(400, FALSE, <<>>, st, 0, 0)
             ELSE IF req.throwAt = 1 THEN Response(500, FALSE, <<>>, st, 0, 1)
             ELSE LET st2 == storageDelete(st, projectSlug, req.id)
                  IN  IF req.throwAt = 2 THEN Response(500, FALSE, <<>>, st2, 1, 1)
                      ELSE Response(200, TRUE, storageGet(st2, projectSlug), st2, 1, 1)
      ELSE Response(405, FALSE, <<>>, st, 0, 0)

(***************************************************************************)
(* useCities: helpers of the hook.                                         *)
(***************************************************************************)
NoId   == ""
NoCity == [id |-> "", name |-> "", num |-> <<>>, tiers |-> NoTiers]

\* variant: the ClearWay presets in the v1 schema (L_measured, no coverage_pct)
presetCities_v1(slug) ==
  IF slug = "clearway"
  THEN [i \in DOMAIN clearway_PRESET_CITIES |->
          LET p == clearway_PRESET_CITIES[i]
          IN  [p EXCEPT !.num = [k \in (DOMAIN p.num \ {"coverage_pct"}) \cup {"L_measured"} |->
                                   IF k = "L_measured" THEN Num(252) ELSE p.num[k]]]]
  ELSE dalris_PRESET_CITIES

\* variant: the presets without their first element
presetCities_tail(slug) ==
  IF slug = "clearway" THEN Tail(clearway_PRESET_CITIES) ELSE Tail(dalris_PRESET_CITIES)

presetCities(slug) ==
  IF slug = "clearway" THEN clearway_PRESET_CITIES ELSE dalris_PRESET_CITIES

\* { ...base, ...defaults, id, name }: defaults override the keys they hold
Spread(base, defaults, id, name) ==
  [id |-> id, name |-> name,
   num |-> [k \in DOMAIN base.num \cup DOMAIN defaults.num |->
              IF k \in DOMAIN defaults.num THEN defaults.num[k] ELSE base.num[k]],
   tiers |-> IF defaults.tiers.t # "undefined" THEN defaults.tiers ELSE base.tiers]

NoDefaults == [num |-> <<>>, tiers |-> NoTiers]

\* v1 stored L_measured in km; v2 uses coverage_pct
migrateCity(city) ==
  IF "coverage_pct" \in DOMAIN city.num THEN city
  ELSE LET L   == Param(city, "L")
           Lm  == Param(city, "L_measured")
           \* Math.min(100, Math.round((L_measured / L) * 100)), one stage at a time
           pct == IF isFinite(L) /\ L.n > 0 /\ "L_measured" \in DOMAIN city.num
                  THEN CHOOSE p \in {Math_min(Num(100), r) :
                                       r \in {Math_round(x) :
                                                x \in {Mul(q, Num(100)) : q \in {Div(Lm, L)}}}} : TRUE
                  ELSE Num(60)
           keep == (DOMAIN city.num \ {"L_measured"}) \cup {"coverage_pct"}
       IN  [city EXCEPT !.num = [k \in keep |-> IF k = "coverage_pct" THEN pct ELSE city.num[k]]]

\* xs.find(c => c.id === id): the index of the first match, 0 when none
FindIndex(xs, id) ==
  IF \E i \in DOMAIN xs : xs[i].id = id
  THEN CHOOSE i \in DOMAIN xs : xs[i].id = id /\ \A j \in 1..(i - 1) : xs[j].id # id
  ELSE 0

\* xs[0]?.id ?? null
FirstId(xs) == IF xs = <<>> THEN NoId ELSE xs[1].id

\* an asynchronous call of the hook: the HTTP request, who issued it, and the
\* response once the server has answered
Call(op, origin, city, id, activeAtCall) ==
  [op |-> op, origin |-> origin, city |-> city, id |-> id, activeAtCall |-> activeAtCall,
   phase |-> "sent", status |-> 0, isList |-> FALSE, data |-> <<>>]

NoTimer       == [pending |-> FALSE, city |-> NoCity]
TimerFor(city) == [pending |-> TRUE, city |-> city]

RemoveAt(xs, i) == [j \in 1..(Len(xs) - 1) |-> IF j < i THEN xs[j] ELSE xs[j + 1]]

(***************************************************************************)
(* Evaluation of the pure functions on bounded inputs.                     *)
(***************************************************************************)
VARIABLES evSlug, evCity, evLookup, evResult, evView, evShown

\* ProjectPage: the tab the user has selected
VARIABLES activeTab

\* the Entity Store, and the last request the API handled with its response
VARIABLES db, apiRes

\* useCities(projectSlug): the hook's state, its one debounce timer, the calls
\* it has in flight, and how many ids uuidv4 has produced
VARIABLES projectSlug, cities, citiesIsArray, activeCityId, saving, loaded, debounceRef,
          net, uuidCount

\* how many slider moves and deletions the user has made, and how many calls
\* have failed
VARIABLES editCount, deleteCount, faultCount

\* /api/cities: the value stored under KV_KEY, and the invocations of the
\* handler, running or returned
VARIABLES kv, invocations

\* storage in file mode: the content of data/cities.json, the module's
\* memoryStore, whether the filesystem takes writes, and the last request
\* handled with its response
VARIABLES file, memoryStore, writable, fileRes

evalVars == <<evSlug, evCity, evLookup, evResult, evView, evShown, activeTab>>
apiVars == <<db, apiRes>>
hookVars ==
  <<projectSlug, cities, citiesIsArray, activeCityId, saving, loaded, debounceRef, net,
    uuidCount, editCount, deleteCount, faultCount>>
citiesVars == <<kv, invocations>>
fileVars == <<file, memoryStore, writable, fileRes>>
vars == <<evalVars, apiVars, hookVars, citiesVars, fileVars>>

MaxTiers  == 2     \* longest generated tiers array
MaxVaried == 2     \* ClearWay parameters replaced at once by a special value

SlugInputs ==
  {"clearway", "dalris", "nonexistent-slug", "", "Clearway", "constructor", "toString",
   "__proto__"}

\* zero, negative and non-finite replacements of a parameter value v
SpecialKinds == {"zero", "negative", "Infinity", "NaN"}
Special(kind, v) ==
  IF kind = "zero" THEN Num(0)
  ELSE IF kind = "negative" THEN Neg(v)
  ELSE IF kind = "Infinity" THEN PosInf ELSE NaN

\* sequences over S of length at most n
RECURSIVE SeqsUpTo(_, _)
SeqsUpTo(S, n) ==
  IF n = 0 THEN {<<>>}
  ELSE LET shorter == SeqsUpTo(S, n - 1)
       IN  shorter \cup {Append(xs, x) : xs \in {ys \in shorter : Len(ys) = n - 1}, x \in S}

TierPool ==
  {Tier("Senzor (LoRaWAN)", Num(30), Num(2500), Num(8000)),
   Tier("WiFi Info Point", Num(6), Num(8000), Num(45000)),
   Tier("odpojeno", Num(0), PosInf, Num(-120000)),
   NullTier}

TiersInputs ==
  {NoTiers, TiersOther} \cup {TiersArray(xs) : xs \in SeqsUpTo(TierPool, MaxTiers)}
  \cup {dalris_PRESET_CITIES[i].tiers : i \in DOMAIN dalris_PRESET_CITIES}

RecoveryInputs == {Num(24), Num(12), Num(5), Num(0), Num(-24), PosInf, NaN}

DalrisInputs ==
  {[id |-> "in", name |-> "Plzen",
    num |-> [L_base |-> lb, P_base_risk |-> pr, t_recovery |-> tr], tiers |-> ts] :
     lb \in {Num(500000), Num(0), Num(-100000), NaN},
     pr \in {Num(200000), Num(0), Num(-50000), PosInf},
     tr \in RecoveryInputs,
     ts \in TiersInputs}

WithId(preset, id) ==
  [id |-> id, name |-> preset.name, num |-> preset.num, tiers |-> preset.tiers]

\* the Plzen preset with the parameters in ks replaced as f says
Varied(ks, f) ==
  LET base == WithId(clearway_PRESET_CITIES[1], "in")
  IN  [base EXCEPT !.num = [k \in DOMAIN base.num |->
                              IF k \in ks THEN Special(f[k], base.num[k]) ELSE base.num[k]]]

ClearwayInputs ==
  {WithId(clearway_PRESET_CITIES[i], "in") : i \in DOMAIN clearway_PRESET_CITIES}
  \cup UNION {{Varied(ks, f) : f \in [ks -> SpecialKinds]} :
               ks \in {x \in SUBSET DOMAIN clearway_PARAM_META : Cardinality(x) <= MaxVaried}}

CityInputs(slug) ==
  IF slug = "clearway" THEN ClearwayInputs
  ELSE IF slug = "dalris" THEN DalrisInputs
  ELSE {WithId(clearway_PRESET_CITIES[1], "in")}

NotCalled == [called |-> FALSE, value |-> Undefined]
NoResult  == [called |-> FALSE, raised |-> FALSE, m |-> <<>>]

NoResponse ==
  [handled |-> FALSE, req |-> Request("", "", FALSE, <<>>, FALSE, "", 0),
   status |-> 0, isList |-> FALSE, cities |-> <<>>, reads |-> 0, writes |-> 0]

ApiIdle == db = <<>> /\ apiRes = NoResponse

\* /api/cities before any request: nothing stored under KV_KEY
NoValue    == [isArray |-> FALSE, items |-> <<>>]
CitiesIdle == kv = NoValue /\ invocations = <<>>

\* file mode before any request: no data file, memoryStore = null
NoFile     == [readable |-> FALSE, items |-> <<>>]
Null       == [isNull |-> TRUE, items |-> <<>>]
NoFileRes  == [handled |-> FALSE, req |-> <<>>, status |-> 0, body |-> <<>>, wrote |-> FALSE]
FileIdle   ==
  file = NoFile /\ memoryStore = Null /\ writable = TRUE /\ fileRes = NoFileRes

EvalIdle ==
  /\ evSlug = "" /\ evCity = WithId(clearway_PRESET_CITIES[1], "in")
  /\ evLookup = NotCalled /\ evResult = NoResult /\ evView = "none" /\ evShown = {}
  /\ activeTab = "calculator"

\* the hook before it is mounted
HookIdle ==
  /\ projectSlug = "" /\ cities = <<>> /\ citiesIsArray = TRUE /\ activeCityId = NoId
  /\ saving = FALSE /\ loaded = FALSE /\ debounceRef = NoTimer /\ net = <<>>
  /\ uuidCount = 0 /\ editCount = 0 /\ deleteCount = 0 /\ faultCount = 0

EvalInit ==
  /\ ApiIdle /\ HookIdle /\ CitiesIdle /\ FileIdle
  /\ evSlug \in SlugInputs
  /\ evCity \in CityInputs(evSlug)
  /\ evLookup = NotCalled
  /\ evResult = NoResult
  /\ evView = "none"
  /\ evShown = {}
  /\ activeTab = "calculator"

\* const project = getProject(slug)
CallGetProject ==
  /\ ~evLookup.called
  /\ evLookup' = [called |-> TRUE, value |-> getProject(evSlug)]
  /\ UNCHANGED <<evSlug, evCity, evResult, evView, evShown, activeTab, apiVars, hookVars, citiesVars, fileVars>>

\* project.computeModel(city), as every view of the page calls it
CallComputeModel ==
  /\ evLookup.called /\ evLookup.value.kind = "project"
  /\ ~evResult.called
  /\ LET r == computeModel(evLookup.value.slug, evCity)
     IN  evResult' = [called |-> TRUE, raised |-> r.raised, m |-> r.m]
  /\ UNCHANGED <<evSlug, evCity, evLookup, evView, evShown, activeTab, apiVars, hookVars, citiesVars, fileVars>>

\* variant: the three tabs whatever the project offers
tabs_all(project) == <<"calculator", "charts", "compare">>

\* the tab bar: calculator, then charts and compare when the project has them
tabs(project) ==
  <<"calculator">>
  \o (IF project.hasCharts THEN <<"charts">> ELSE <<>>)
  \o (IF project.hasCompareColumns THEN <<"compare">> ELSE <<>>)

\* the user clicks a button of the tab bar: setActiveTab(t.id), and the page
\* renders again
SetActiveTab(t) ==
  /\ evLookup.called /\ evLookup.value.kind = "project"
  /\ \E k \in DOMAIN tabs(PROJECT_REGISTRY[evSlug]) : tabs(PROJECT_REGISTRY[evSlug])[k] = t
  /\ t # activeTab
  /\ activeTab' = t
  /\ evView' = "none" /\ evShown' = {}
  /\ UNCHANGED <<evSlug, evCity, evLookup, evResult, apiVars, hookVars, citiesVars, fileVars>>

\* the page renders a view of the entity: the content of the active tab, when
\* the project offers it, or the sidebar; it shows the texts of the model result
Render(view) ==
  /\ evResult.called /\ ~evResult.raised
  /\ evView = "none"
  /\ view # "sidebar" => activeTab = view
  /\ view = "charts" => PROJECT_REGISTRY[evSlug].hasCharts
  /\ view = "compare" => PROJECT_REGISTRY[evSlug].hasCompareColumns
  /\ evView' = view
  /\ evShown' = ViewShows(view, evSlug, evCity, evResult.m)
  /\ UNCHANGED <<evSlug, evCity, evLookup, evResult, activeTab, apiVars, hookVars, citiesVars, fileVars>>

EvalNext ==
  \/ CallGetProject
  \/ CallComputeModel
  \/ \E t \in Views : SetActiveTab(t)
  \/ \E view \in Views : Render(view)

SpecEval == EvalInit /\ [][EvalNext]_vars

(***************************************************************************)
(* The cities API serving requests one at a time (SpecApi).                *)
(***************************************************************************)
MaxRows == 2     \* rows the store may hold

ApiSlugs   == {"clearway", "dalris", "nonexistent-slug", "constructor"}
ApiMethods == {"GET", "POST", "DELETE", "PUT"}
ApiIds     == {"", "c1", "c2"}
ApiCities  == {WithId(clearway_PRESET_CITIES[k], id) : k \in 1..2, id \in ApiIds}

Requests ==
  {Request(slug, "GET", FALSE, <<>>, FALSE, "", throwAt) :
     slug \in ApiSlugs, throwAt \in 0..1}
  \cup {Request(slug, "PUT", FALSE, <<>>, FALSE, "", 0) : slug \in ApiSlugs}
  \cup {Request(slug, "POST", FALSE, <<>>, FALSE, "", 0) : slug \in ApiSlugs}
  \cup {Request(slug, "POST", TRUE, city, FALSE, "", throwAt) :
          slug \in ApiSlugs, city \in ApiCities, throwAt \in 0..2}
  \cup {Request(slug, "DELETE", FALSE, <<>>, FALSE, "", 0) : slug \in ApiSlugs}
  \cup {Request(slug, "DELETE", FALSE, <<>>, TRUE, id, throwAt) :
          slug \in ApiSlugs, id \in ApiIds, throwAt \in 0..2}

ApiInit == EvalIdle /\ ApiIdle /\ HookIdle /\ CitiesIdle /\ FileIdle

\* the server handles one request
ApiHandle(req) ==
  LET res == handler(req, db)
  IN  /\ Len(res.db) <= MaxRows
      /\ db' = res.db
      /\ apiRes' = [handled |-> TRUE, req |-> req, status |-> res.status,
                    isList |-> res.isList, cities |-> res.cities,
                    reads |-> res.reads, writes |-> res.writes]
      /\ UNCHANGED <<citiesVars, fileVars, evalVars, hookVars>>

ApiNext == \E req \in Requests : ApiHandle(req)

SpecApi == ApiInit /\ [][ApiNext]_vars

(***************************************************************************)
(* The useCities hook mounted on the project page, the user acting on the  *)
(* page, and the server answering the hook's requests (Spec).  Requests    *)
(* are answered, and their responses delivered, in any order.              *)
(***************************************************************************)
MaxStored   == 1     \* entities the store holds when the page is opened
MaxUuid     == 1     \* ids uuidv4 produces in one session
MaxInFlight == 2     \* calls in flight when the user starts another one
MaxPresets  == 1     \* quick-add preset buttons the user presses
MaxEditKeys == 1     \* parameters the user moves the slider of
MaxEdits    == 2     \* slider moves in one session
MaxDeletes  == 1     \* deletions in one session
MaxFaults   == 1     \* calls that fail in one session

RegisteredSlugs == {"clearway", "dalris"}

UuidNames == <<"u1", "u2", "u3", "u4">>
StoredIds == <<"s1", "s2", "s3", "s4">>

\* uuidv4(): an id no entity holds yet
uuidv4(n) == UuidNames[n + 1]

\* a ClearWay entity saved by v1 of the model: L_measured in km, no coverage_pct
LegacyCity ==
  LET p == clearway_PRESET_CITIES[1]
  IN  [id |-> StoredIds[1], name |-> p.name,
       num |-> [k \in (DOMAIN p.num \ {"coverage_pct"}) \cup {"L_measured"} |->
                  IF k = "L_measured" THEN Num(252) ELSE p.num[k]],
       tiers |-> NoTiers]

\* what the store may hold when the page is opened: entities the program saved
\* earlier, or a ClearWay entity of the v1 schema
InitialStores(slug) ==
  {[i \in 1..n |-> [slug |-> slug, city |-> WithId(presetCities(slug)[i], StoredIds[i])]] :
     n \in 0..MaxStored}
  \cup (IF slug = "clearway" THEN {<<[slug |-> slug, city |-> LegacyCity]>>} ELSE {})

Min(a, b) == IF a < b THEN a ELSE b

\* the sliders the user moves, and the values a slider commits
EditKeys(slug) ==
  LET keys == IF slug = "clearway" THEN clearway_PARAM_KEYS ELSE dalris_PARAM_KEYS
  IN  {keys[k] : k \in 1..Min(MaxEditKeys, Len(keys))}

\* variant: every parameter's min and max exchanged
paramMeta_swapped(slug) ==
  LET pm == IF slug = "clearway" THEN clearway_PARAM_META ELSE dalris_PARAM_META
  IN  [k \in DOMAIN pm |-> [pm[k] EXCEPT !.min = pm[k].max, !.max = pm[k].min]]

paramMeta(slug) == IF slug = "clearway" THEN clearway_PARAM_META ELSE dalris_PARAM_META
EditValues(slug, key) == {paramMeta(slug)[key].min, paramMeta(slug)[key].max}

\* what the sidebar passes to addCity: a typed name, or a preset split into its
\* name and the rest
AddInputs(slug) ==
  {[name |-> "Nove mesto", defaults |-> NoDefaults]}
  \cup {[name |-> presetCities(slug)[k].name,
         defaults |-> [num |-> presetCities(slug)[k].num, tiers |-> presetCities(slug)[k].tiers]] :
          k \in 1..Min(MaxPresets, Len(presetCities(slug)))}

\* the page shows the sidebar and the tabs
PageShown == loaded /\ citiesIsArray

Init ==
  /\ EvalIdle /\ CitiesIdle /\ FileIdle
  /\ apiRes = NoResponse
  /\ projectSlug \in RegisteredSlugs
  /\ db \in InitialStores(projectSlug)
  /\ cities = <<>> /\ citiesIsArray = TRUE /\ activeCityId = NoId
  /\ saving = FALSE /\ loaded = FALSE
  /\ debounceRef = NoTimer
  /\ uuidCount = 0 /\ editCount = 0 /\ deleteCount = 0 /\ faultCount = 0
  \* the mount effect has issued fetch(apiBase)
  /\ net = <<Call("GET", "mount", NoCity, NoId, NoId)>>

\* the server handles the request of call i; throwAt says which storage call
\* fails, if any
ServerHandle(i, throwAt) ==
  /\ i \in DOMAIN net /\ net[i].phase = "sent"
  /\ throwAt # 0 => faultCount < MaxFaults
  /\ faultCount' = IF throwAt # 0 THEN faultCount + 1 ELSE faultCount
  /\ LET c   == net[i]
         req == Request(projectSlug, c.op, c.op = "POST", c.city, c.op = "DELETE", c.id,
                        throwAt)
         res == handler(req, db)
     IN  /\ db' = res.db
         /\ net' = [net EXCEPT ![i] = [c EXCEPT !.phase = "answered", !.status = res.status,
                                                !.isList = res.isList, !.data = res.cities]]
  /\ UNCHANGED <<citiesVars, fileVars, evalVars, apiRes, projectSlug, cities, citiesIsArray, activeCityId, saving,
                 loaded, debounceRef, uuidCount, editCount, deleteCount>>

\* the connection of call i fails: fetch (or res.json()) rejects
ConnectionLost(i) ==
  /\ i \in DOMAIN net /\ net[i].phase \in {"sent", "answered"}
  /\ faultCount < MaxFaults
  /\ faultCount' = faultCount + 1
  /\ net' = [net EXCEPT ![i].phase = "rejected"]
  /\ UNCHANGED <<citiesVars, fileVars, evalVars, apiVars, projectSlug, cities, citiesIsArray, activeCityId, saving,
                 loaded, debounceRef, uuidCount, editCount, deleteCount>>

\* the response of the initial fetch arrives
DeliverFetch(i) ==
  /\ i \in DOMAIN net /\ net[i].op = "GET" /\ net[i].phase \in {"answered", "rejected"}
  /\ LET c    == net[i]
         rest == RemoveAt(net, i)
     IN  IF c.phase = "rejected"
         THEN \* .catch(() => setLoaded(true))
              /\ loaded' = TRUE /\ net' = rest
              /\ UNCHANGED <<cities, citiesIsArray, activeCityId, saving, uuidCount>>
         ELSE IF ~c.isList
         THEN \* an error body: data.length is undefined; data.map (ClearWay) or
              \* migrated[0].id (after setCities(data)) throws into the catch
              /\ loaded' = TRUE /\ net' = rest
              /\ IF projectSlug = "clearway"
                 THEN UNCHANGED <<cities, citiesIsArray>>
                 ELSE cities' = <<>> /\ citiesIsArray' = FALSE
              /\ UNCHANGED <<activeCityId, saving, uuidCount>>
         ELSE IF c.data = <<>>
         THEN \* seed with the first preset; loaded is set when the save returns
              LET preset == presetCities(projectSlug)[1]
                  city   == WithId(preset, uuidv4(uuidCount))
              IN  /\ uuidCount' = uuidCount + 1
                  /\ saving' = TRUE
                  /\ net' = Append(rest, Call("POST", "seed", city, NoId, NoId))
                  /\ UNCHANGED <<cities, citiesIsArray, activeCityId, loaded>>
         ELSE LET migrated == IF projectSlug = "clearway" THEN [k \in DOMAIN c.data |-> migrateCity(c.data[k])]
                              ELSE c.data
                  changed  == projectSlug = "clearway"
                              /\ \E k \in DOMAIN migrated : migrated[k] # c.data[k]
              IN  /\ cities' = migrated /\ citiesIsArray' = TRUE
                  /\ activeCityId' = migrated[1].id
                  /\ IF changed
                     THEN /\ saving' = TRUE
                          /\ net' = rest \o [k \in DOMAIN migrated |->
                                               Call("POST", "migrate", migrated[k], NoId, NoId)]
                     ELSE /\ net' = rest /\ UNCHANGED saving
                  /\ loaded' = TRUE
                  /\ UNCHANGED uuidCount
  /\ UNCHANGED <<citiesVars, fileVars, evalVars, apiVars, projectSlug, debounceRef, editCount, deleteCount, faultCount>>

\* variant: the mount effect without its .catch, so that a rejected seed save
\* leaves loaded as it was
setLoaded_noCatch(c, prev) ==
  IF c.origin = "seed" /\ c.phase # "rejected" THEN TRUE ELSE prev

\* loaded after the saveCity call c has settled: the seeding path goes on to
\* setLoaded(true), through the .catch when the save was rejected
setLoaded(c, prev) == IF c.origin = "seed" THEN TRUE ELSE prev

\* the response of a saveCity call arrives, and its caller continues
DeliverSave(i) ==
  /\ i \in DOMAIN net /\ net[i].op = "POST" /\ net[i].phase \in {"answered", "rejected"}
  /\ LET c       == net[i]
         ok      == c.phase = "answered" /\ c.status = 200 /\ c.isList
         updated == IF ok THEN c.data ELSE <<c.city>>
     IN  /\ IF ok THEN cities' = c.data /\ citiesIsArray' = TRUE
                  ELSE UNCHANGED <<cities, citiesIsArray>>
         /\ saving' = FALSE
         /\ activeCityId' =
              IF c.phase = "rejected" THEN activeCityId
              ELSE IF c.origin = "addCity"
                   THEN IF FindIndex(updated, c.city.id) # 0 THEN c.city.id ELSE FirstId(updated)
              ELSE IF c.origin = "seed" THEN FirstId(updated)
              ELSE activeCityId
         /\ loaded' = setLoaded(c, loaded)
         /\ net' = RemoveAt(net, i)
  /\ UNCHANGED <<citiesVars, fileVars, evalVars, apiVars, projectSlug, debounceRef, uuidCount, editCount, deleteCount,
                 faultCount>>

\* the response of a deleteCity call arrives
DeliverDelete(i) ==
  /\ i \in DOMAIN net /\ net[i].op = "DELETE" /\ net[i].phase \in {"answered", "rejected"}
  /\ LET c == net[i]
     IN  /\ net' = RemoveAt(net, i)
         /\ IF c.phase = "rejected"
            THEN UNCHANGED <<cities, citiesIsArray, activeCityId>>
            ELSE /\ IF c.isList THEN cities' = c.data /\ citiesIsArray' = TRUE
                    ELSE cities' = <<>> /\ citiesIsArray' = FALSE
                 /\ activeCityId' = IF c.activeAtCall = c.id THEN FirstId(c.data)
                                    ELSE activeCityId
  /\ UNCHANGED <<citiesVars, fileVars, evalVars, apiVars, projectSlug, saving, loaded, debounceRef, uuidCount,
                 editCount, deleteCount, faultCount>>

\* the user picks an entity in the sidebar
SetActiveCityId(id) ==
  /\ PageShown
  /\ \E k \in DOMAIN cities : cities[k].id = id
  /\ id # activeCityId
  /\ activeCityId' = id
  /\ UNCHANGED <<citiesVars, fileVars, evalVars, apiVars, projectSlug, cities, citiesIsArray, saving, loaded,
                 debounceRef, net, uuidCount, editCount, deleteCount, faultCount>>

\* { ...c, [key]: value }
SetKey(c, key, value) ==
  [c EXCEPT !.num = [q \in DOMAIN c.num \cup {key} |-> IF q = key THEN value ELSE c.num[q]]]

\* variant: the key is set on every entity of the list
updateParam_everyEntity(prev, cityId, key, value) ==
  LET updated == [k \in DOMAIN prev |-> SetKey(prev[k], key, value)]
      i       == FindIndex(updated, cityId)
  IN  [cities |-> updated, found |-> i # 0, city |-> IF i # 0 THEN updated[i] ELSE NoCity]

\* the updater updateParam hands to setCities: the next list, and the entity
\* it passes to debouncedSave when it finds one
updateParam(prev, cityId, key, value) ==
  LET updated == [k \in DOMAIN prev |->
                    IF prev[k].id # cityId THEN prev[k] ELSE SetKey(prev[k], key, value)]
      i       == FindIndex(updated, cityId)
  IN  [cities |-> updated, found |-> i # 0, city |-> IF i # 0 THEN updated[i] ELSE NoCity]

\* the user moves a slider of the active entity: updateParam(activeCityId, key,
\* value), which ends in debouncedSave(city)
UpdateParam(key, value) ==
  /\ PageShown
  /\ FindIndex(cities, activeCityId) # 0
  /\ editCount < MaxEdits
  /\ editCount' = editCount + 1
  /\ LET r == updateParam(cities, activeCityId, key, value)
     IN  /\ cities' = r.cities
         /\ IF r.found
            THEN debounceRef' = TimerFor(r.city) /\ saving' = TRUE
            ELSE UNCHANGED <<debounceRef, saving>>
  /\ UNCHANGED <<citiesVars, fileVars, evalVars, apiVars, projectSlug, citiesIsArray, activeCityId, loaded, net,
                 uuidCount, deleteCount, faultCount>>

\* 300 ms have passed since the timer was set: saveCity(city)
TimerFire ==
  /\ debounceRef.pending
  /\ Len(net) < MaxInFlight
  /\ debounceRef' = NoTimer
  /\ saving' = TRUE
  /\ net' = Append(net, Call("POST", "debounce", debounceRef.city, NoId, NoId))
  /\ UNCHANGED <<citiesVars, fileVars, evalVars, apiVars, projectSlug, cities, citiesIsArray, activeCityId, loaded,
                 uuidCount, editCount, deleteCount, faultCount>>

\* the user adds an entity: addCity(name, defaults)
AddCity(in) ==
  /\ PageShown
  /\ uuidCount < MaxUuid
  /\ Len(net) < MaxInFlight
  /\ LET city == Spread(presetCities(projectSlug)[1], in.defaults, uuidv4(uuidCount), in.name)
     IN  /\ uuidCount' = uuidCount + 1
         /\ saving' = TRUE
         /\ net' = Append(net, Call("POST", "addCity", city, NoId, NoId))
  /\ UNCHANGED <<citiesVars, fileVars, evalVars, apiVars, projectSlug, cities, citiesIsArray, activeCityId, loaded,
                 debounceRef, editCount, deleteCount, faultCount>>

\* the user presses the delete button: deleteCity(activeCityId)
DeleteCity ==
  /\ PageShown
  /\ Len(cities) > 1
  /\ activeCityId # NoId
  /\ Len(net) < MaxInFlight
  /\ deleteCount < MaxDeletes
  /\ deleteCount' = deleteCount + 1
  /\ net' = Append(net, Call("DELETE", "deleteCity", NoCity, activeCityId, activeCityId))
  /\ UNCHANGED <<citiesVars, fileVars, evalVars, apiVars, projectSlug, cities, citiesIsArray, activeCityId, saving,
                 loaded, debounceRef, uuidCount, editCount, faultCount>>

Next ==
  \/ \E i \in 1..(MaxInFlight + MaxStored), throwAt \in 0..2 : ServerHandle(i, throwAt)
  \/ \E i \in 1..(MaxInFlight + MaxStored) : ConnectionLost(i)
  \/ \E i \in 1..(MaxInFlight + MaxStored) : DeliverFetch(i)
  \/ \E i \in 1..(MaxInFlight + MaxStored) : DeliverSave(i)
  \/ \E i \in 1..(MaxInFlight + MaxStored) : DeliverDelete(i)
  \/ \E id \in {UuidNames[k] : k \in DOMAIN UuidNames} \cup {StoredIds[k] : k \in DOMAIN StoredIds} :
       SetActiveCityId(id)
  \/ \E key \in EditKeys(projectSlug) : \E value \in EditValues(projectSlug, key) :
       UpdateParam(key, value)
  \/ TimerFire
  \/ \E in \in AddInputs(projectSlug) : AddCity(in)
  \/ DeleteCity

Spec == Init /\ [][Next]_vars

\* a request in flight is answered or fails, or the continuation of a settled
\* fetch or save is run
Settles ==
  \E i \in 1..(MaxInFlight + MaxStored) :
    \/ \E throwAt \in 0..2 : ServerHandle(i, throwAt)
    \/ ConnectionLost(i)
    \/ DeliverFetch(i)
    \/ DeliverSave(i)

SpecLive == Spec /\ WF_vars(Settles)

(***************************************************************************)
(* The cities API of src/pages/api/cities.ts over src/lib/storage.ts, with *)
(* several requests in progress at once (SpecCities).  A handler runs up   *)
(* to its first await, and again from each await that resolved; between    *)
(* two awaits of one invocation the others may run.                        *)
(***************************************************************************)
MaxInvocations == 3    \* requests received in one run

\* storageGet(): Array.isArray(data) ? data : []
storage_storageGet(value) == IF value.isArray THEN value.items ELSE <<>>

\* storageSet(cities): the whole list replaces the stored value
storage_storageSet(list) == [isArray |-> TRUE, items |-> list]

\* a request to /api/cities: method, body.city and query id, each possibly missing
CitiesRequest(method, hasCity, city, hasId, id) ==
  [method |-> method, hasCity |-> hasCity, city |-> city, hasId |-> hasId, id |-> id]

CitiesRequests ==
  {CitiesRequest(method, FALSE, NoCity, FALSE, NoId) : method \in ApiMethods}
  \cup {CitiesRequest("POST", TRUE, city, FALSE, NoId) : city \in ApiCities}
  \cup {CitiesRequest("DELETE", FALSE, NoCity, TRUE, id) : id \in ApiIds}

\* an invocation of the handler: where it is (start, read: storageGet has
\* resolved, done: it has returned), its local list, and its response
Invocation(req) ==
  [req |-> req, pc |-> "start", cities |-> <<>>, status |-> 0, isList |-> FALSE,
   body |-> <<>>]

Returns(inv, status, isList, body) ==
  [inv EXCEPT !.pc = "done", !.status = status, !.isList = isList, !.body = body]

\* variant: the city is pushed whether or not the id is found
Upsert_push(list, city) == Append(list, city)

\* cities[idx] = city when findIndex finds the id, cities.push(city) otherwise
Upsert(list, city) ==
  LET idx == FindIndex(list, city.id)
  IN  IF idx # 0 THEN [list EXCEPT ![idx] = city] ELSE Append(list, city)

\* cities.filter((c) => c.id !== id)
Without(list, id) == SelectSeq(list, LAMBDA c : c.id # id)

\* a request arrives
Receive(req) ==
  /\ Len(invocations) < MaxInvocations
  /\ invocations' = Append(invocations, Invocation(req))
  /\ UNCHANGED <<kv, evalVars, apiVars, hookVars, fileVars>>

\* the handler runs from its start: it answers at once (GET after its read,
\* 400, 405), or stops at the await of storageGet with the list it read
HandlerStart(i) ==
  /\ i \in DOMAIN invocations /\ invocations[i].pc = "start"
  /\ LET inv == invocations[i]
         req == inv.req
         nxt == IF req.method = "GET"
                  THEN Returns(inv, 200, TRUE, storage_storageGet(kv))
                ELSE IF req.method = "POST"
                  THEN IF ~req.hasCity \/ req.city.id = NoId
                       THEN Returns(inv, 400, FALSE, <<>>)
                       ELSE [inv EXCEPT !.pc = "read", !.cities = storage_storageGet(kv)]
                ELSE IF req.method = "DELETE"
                  THEN IF ~req.hasId \/ req.id = NoId
                       THEN Returns(inv, 400, FALSE, <<>>)
                       ELSE [inv EXCEPT !.pc = "read", !.cities = storage_storageGet(kv)]
                ELSE Returns(inv, 405, FALSE, <<>>)
     IN  invocations' = [invocations EXCEPT ![i] = nxt]
  /\ UNCHANGED <<kv, evalVars, apiVars, hookVars, fileVars>>

\* the handler runs on from storageGet: it changes its list, storageSet
\* stores it, and the list is the response
HandlerWrite(i) ==
  /\ i \in DOMAIN invocations /\ invocations[i].pc = "read"
  /\ LET inv  == invocations[i]
         list == IF inv.req.method = "POST" THEN Upsert(inv.cities, inv.req.city)
                 ELSE Without(inv.cities, inv.req.id)
     IN  /\ kv' = storage_storageSet(list)
         /\ invocations' = [invocations EXCEPT ![i] = Returns(inv, 200, TRUE, list)]
  /\ UNCHANGED <<evalVars, apiVars, hookVars, fileVars>>

\* a storage call rejects: the catch answers 500
StorageThrows(i) ==
  /\ i \in DOMAIN invocations
  /\ \/ invocations[i].pc = "read"
     \/ invocations[i].pc = "start" /\ invocations[i].req.method = "GET"
     \/ invocations[i].pc = "start" /\ invocations[i].req.method = "POST"
          /\ invocations[i].req.hasCity /\ invocations[i].req.city.id # NoId
     \/ invocations[i].pc = "start" /\ invocations[i].req.method = "DELETE"
          /\ invocations[i].req.hasId /\ invocations[i].req.id # NoId
  /\ invocations' = [invocations EXCEPT ![i] = Returns(invocations[i], 500, FALSE, <<>>)]
  /\ UNCHANGED <<kv, evalVars, apiVars, hookVars, fileVars>>

CitiesInit == EvalIdle /\ ApiIdle /\ HookIdle /\ CitiesIdle /\ FileIdle

CitiesNext ==
  \/ \E req \in CitiesRequests : Receive(req)
  \/ \E i \in 1..MaxInvocations : HandlerStart(i)
  \/ \E i \in 1..MaxInvocations : HandlerWrite(i)
  \/ \E i \in 1..MaxInvocations : StorageThrows(i)

SpecCities == CitiesInit /\ [][CitiesNext]_vars

(***************************************************************************)
(* The same handler over the storage of src/unnamed/part_002 in file mode  *)
(* (no KV configured), one request at a time (SpecFile).  The data file    *)
(* may be there or not when the server starts, and the filesystem may      *)
(* refuse writes.                                                          *)
(***************************************************************************)
MaxFileRows == 2    \* longest list kept in the data file or in memoryStore

\* fileGet(): the parsed data file; memoryStore ?? [] when reading it fails
fileGet(f, mem) ==
  IF f.readable THEN f.items ELSE IF mem.isNull THEN <<>> ELSE mem.items

\* fileSet(cities): the data file is written; memoryStore = cities when that fails
fileSet(f, mem, w, list) ==
  IF w THEN [file |-> [readable |-> TRUE, items |-> list], memoryStore |-> mem]
  ELSE [file |-> f, memoryStore |-> [isNull |-> FALSE, items |-> list]]

\* the handler run alone on the list storageGet returned: its response, and
\* whether it called storageSet with the body
HandledOn(req, list) ==
  IF req.method = "GET" THEN [status |-> 200, body |-> list, wrote |-> FALSE]
  ELSE IF req.method = "POST"
    THEN IF ~req.hasCity \/ req.city.id = NoId
         THEN [status |-> 400, body |-> <<>>, wrote |-> FALSE]
         ELSE [status |-> 200, body |-> Upsert(list, req.city), wrote |-> TRUE]
  ELSE IF req.method = "DELETE"
    THEN IF ~req.hasId \/ req.id = NoId
         THEN [status |-> 400, body |-> <<>>, wrote |-> FALSE]
         ELSE [status |-> 200, body |-> Without(list, req.id), wrote |-> TRUE]
  ELSE [status |-> 405, body |-> <<>>, wrote |-> FALSE]

\* the data file the server may start with, and whether it can be written
FileInit ==
  /\ EvalIdle /\ ApiIdle /\ HookIdle /\ CitiesIdle
  /\ file \in {NoFile, [readable |-> TRUE, items |-> <<WithId(clearway_PRESET_CITIES[1], "c1")>>]}
  /\ memoryStore = Null
  /\ writable \in BOOLEAN
  /\ fileRes = NoFileRes

\* the server handles one request
FileHandle(req) ==
  LET r   == HandledOn(req, fileGet(file, memoryStore))
      set == fileSet(file, memoryStore, writable, r.body)
  IN  /\ Len(r.body) <= MaxFileRows
      /\ IF r.wrote
         THEN file' = set.file /\ memoryStore' = set.memoryStore
         ELSE UNCHANGED <<file, memoryStore>>
      /\ fileRes' = [handled |-> TRUE, req |-> req, status |-> r.status, body |-> r.body,
                     wrote |-> r.wrote]
      /\ UNCHANGED <<writable, evalVars, apiVars, hookVars, citiesVars>>

FileNext == \E req \in CitiesRequests : FileHandle(req)

SpecFile == FileInit /\ [][FileNext]_vars

(***************************************************************************)
(* Properties of the registry and of the evaluators (SpecEval).            *)
(***************************************************************************)
\* C3: getProject(slug) returns a defined Project Definition for "clearway"
\* and for "dalris", and undefined for every other slug string.
C3_GetProjectAbsentForUnknown ==
  evLookup.called =>
    IF evSlug \in RegisteredSlugs
    THEN evLookup.value = ProjectValue(evSlug)
    ELSE evLookup.value = Undefined

\* every parameter of the entity is a number, and tiers (DALRIS) is absent,
\* not an array, or an array of tier objects
NumericEntity(slug, city) ==
  /\ paramMetaKeys(slug) \subseteq DOMAIN city.num
  /\ \A i \in DOMAIN city.tiers.items : city.tiers.items[i].isObj

clearway_RESULT_KEYS == {"CI", "Qf", "Qt", "R", "L_measured", "Q", "SV", "SV_real", "P"}
dalris_RESULT_KEYS   == {"V_readiness", "totalMaintenance", "P_OPEX", "totalCAPEX", "P"}

C8_EmptyTiersZeroContribution ==
  (evResult.called /\ evSlug = "dalris"
     /\ (~Array_isArray(evCity.tiers) \/ evCity.tiers.items = <<>>)) =>
    /\ ~evResult.raised
    /\ evResult.m.totalMaintenance = Num(0)
    /\ evResult.m.totalCAPEX = Num(0)
    /\ evResult.m.P_OPEX = Add(evCity.num.L_base, evResult.m.V_readiness)

C8_Witness ==
  /\ evResult.called /\ evSlug = "dalris"
  /\ evCity.tiers = TiersOther
  /\ evCity.num.L_base = Num(500000) /\ evCity.num.t_recovery = Num(12)
  /\ evResult.m.P_OPEX = Num(1100000)

\* sum over the tiers of count * field, taken from the last tier backwards
RECURSIVE SumCountTimes(_, _)
SumCountTimes(tiers, field) ==
  IF tiers = <<>> THEN Num(0)
  ELSE Add(SumCountTimes(Tail(tiers), field), Mul(Head(tiers).count, Head(tiers)[field]))

TiersOf(city) == IF city.tiers.t = "array" THEN city.tiers.items ELSE <<>>

\* the entity with every unitCapex replaced by u
WithCapex(city, u) ==
  [city EXCEPT !.tiers.items = [i \in DOMAIN @ |-> [@[i] EXCEPT !.unitCapex = u]]]

\* C9: for every DALRIS input, computeModel returns exactly the keys
\* {V_readiness, totalMaintenance, P_OPEX, totalCAPEX, P} with
\* V_readiness = P_base_risk * (1 + 24 / t_recovery), totalMaintenance = sum of
\* count * maintenance, totalCAPEX = sum of count * unitCapex,
\* P_OPEX = L_base + totalMaintenance + V_readiness and P = P_OPEX; totalCAPEX
\* does not enter P.
C9_DalrisFormulas ==
  (evResult.called /\ evSlug = "dalris" /\ ~evResult.raised) =>
    LET m  == evResult.m
        t  == evCity.num.t_recovery
        pr == evCity.num.P_base_risk
    IN  /\ DOMAIN m = dalris_RESULT_KEYS
        /\ m.V_readiness = Add(pr, Mul(pr, Div(Num(24), t)))
              \/ (~isFinite(pr) /\ m.V_readiness = Mul(pr, Add(Num(1), Div(Num(24), t))))
        /\ (isFinite(pr) /\ isFinite(t) /\ t.n # 0) =>
              Mul(m.V_readiness, t) = Mul(pr, Add(t, Num(24)))
        /\ m.totalMaintenance = SumCountTimes(TiersOf(evCity), "maintenance")
        /\ m.totalCAPEX = SumCountTimes(TiersOf(evCity), "unitCapex")
        /\ m.P_OPEX = Add(evCity.num.L_base, Add(m.V_readiness, m.totalMaintenance))
        /\ m.P = m.P_OPEX
        /\ dalris_computeModel(WithCapex(evCity, Num(0))).m.P = m.P

C9_Witness ==
  /\ evResult.called /\ evSlug = "dalris" /\ ~evResult.raised
  /\ Len(TiersOf(evCity)) = 2
  /\ evCity.num.t_recovery = Num(5)
  /\ isFinite(evResult.m.P)
  /\ evResult.m.totalCAPEX # Num(0)
  /\ evResult.m.V_readiness = Num(1160000)

PlzenDalris ==
  [id |-> "in", name |-> "Plzen",
   num |-> [L_base |-> Num(500000), P_base_risk |-> Num(200000), t_recovery |-> Num(24)],
   tiers |-> TiersArray(
     <<Tier("Senzor (LoRaWAN)", Num(30), Num(2500), Num(8000)),
       Tier("WiFi Info Point", Num(6), Num(8000), Num(45000)),
       Tier("FM vysilaci uzel", Num(2), Num(15000), Num(120000))>>)]

\* C10: the DALRIS model on the shipped Plzen preset yields totalMaintenance =
\* 153000, V_readiness = 400000, P_OPEX = 1053000 and totalCAPEX = 750000, and
\* the first DALRIS preset in the code holds exactly these inputs.
C10_DalrisPlzenScenario ==
  /\ WithId(dalris_PRESET_CITIES[1], "in") = PlzenDalris
  /\ (evResult.called /\ evSlug = "dalris" /\ evCity = PlzenDalris) =>
       /\ ~evResult.raised
       /\ evResult.m.totalMaintenance = Num(153000)
       /\ evResult.m.V_readiness = Num(400000)
       /\ evResult.m.P_OPEX = Num(1053000)
       /\ evResult.m.totalCAPEX = Num(750000)

C10_Witness ==
  evResult.called /\ evSlug = "dalris" /\ evCity = PlzenDalris /\ ~evResult.raised

\* the recovery times an entity is compared at: the inputs and the SLA options
RecoveryValues == RecoveryInputs \cup {Num(SLA_OPTIONS[i]) : i \in DOMAIN SLA_OPTIONS}

\* V_readiness of the entity with t_recovery replaced by t
ReadinessAt(city, t) ==
  dalris_computeModel([city EXCEPT !.num.t_recovery = t]).m.V_readiness

\* the evaluated entity is a DALRIS one with a finite P_base_risk > 0
DalrisPositiveRisk ==
  /\ evResult.called /\ evSlug = "dalris" /\ ~evResult.raised
  /\ isFinite(evCity.num.P_base_risk) /\ evCity.num.P_base_risk.n > 0

ClearwayEvaluated == evResult.called /\ evSlug = "clearway" /\ ~evResult.raised

\* C12: the coverage ratio R of ClearWay lies within [0, 1] for all inputs,
\* whatever coverage_pct is supplied: R = coverage_pct / 100 when coverage_pct
\* is inside [0, 100], 0 below that range and 1 above it.
C12_CoverageRatioClamped ==
  ClearwayEvaluated =>
    LET c == Param(evCity, "coverage_pct")
        R == evResult.m.R
    IN  /\ Leq(Num(0), R) /\ Leq(R, Num(1))
        /\ (Leq(Num(0), c) /\ Leq(c, Num(100))) => R = Div(c, Num(100))
        /\ Lt(c, Num(0)) => R = Num(0)
        /\ Lt(Num(100), c) => R = Num(1)

\* the coverage values an entity is compared at
CoverageValues ==
  {Num(-60), Num(0), Num(30), Num(60), Num(100), Num(150), PosInf, NegInf, NaN}

\* Q of the entity with coverage_pct replaced by c
QualityAt(city, c) ==
  clearway_computeModel([city EXCEPT !.num.coverage_pct = c]).m.Q

\* C13 as stated: the combined quality Q = R * Qf * Qt of ClearWay is
\* monotonically non-decreasing in coverage_pct, all other inputs held fixed.
C13_QualityMonotoneInCoverage ==
  ClearwayEvaluated =>
    \A c2 \in CoverageValues :
      Lt(evCity.num.coverage_pct, c2) => Leq(evResult.m.Q, QualityAt(evCity, c2))

\* C13, amended: with all other inputs held fixed at values for which Qf >= 0
\* and Qt is not NaN, Q is monotonically non-decreasing in coverage_pct.
C13_QualityMonotoneWhenNonNegative ==
  (ClearwayEvaluated /\ Leq(Num(0), evResult.m.Qf) /\ ~isNaN(evResult.m.Qt)) =>
    \A c2 \in CoverageValues :
      Lt(evCity.num.coverage_pct, c2) => Leq(evResult.m.Q, QualityAt(evCity, c2))

C13_Witness ==
  /\ ClearwayEvaluated
  /\ evCity.num = clearway_PRESET_CITIES[1].num
  /\ evCity.num.coverage_pct = Num(60)
  /\ QualityAt(evCity, Num(0)) = Num(0)
  /\ Lt(Num(0), evResult.m.Q)
  /\ Lt(evResult.m.Q, QualityAt(evCity, Num(100)))
  /\ QualityAt(evCity, Num(150)) = QualityAt(evCity, Num(100))

\* the freshness values an entity is compared at
FreshnessValues ==
  {Num(-3), Num(0), Num(1), Num(T_IDEAL), Num(4), Num(7), Num(30), Num(2238), Num(3000),
   PosInf, NegInf, NaN}

\* Qt of the entity with T replaced by t
FreshnessAt(city, t) == clearway_computeModel([city EXCEPT !.num.T = t]).m.Qt

\* C14 as stated: for T <= T_IDEAL (3 days) Qt is exactly 1; for T > T_IDEAL
\* it is strictly between 0 and 1.
C14_FreshnessQuality ==
  ClearwayEvaluated =>
    \A t \in FreshnessValues \cup {Param(evCity, "T")} :
      LET Qt == FreshnessAt(evCity, t)
      IN  /\ Leq(t, Num(T_IDEAL)) => Qt = Num(1)
          /\ Lt(Num(T_IDEAL), t) => (Lt(Num(0), Qt) /\ Lt(Qt, Num(1)))

\* C14, amended: for T <= T_IDEAL Qt is exactly 1; for T > T_IDEAL it is at
\* least 0 and strictly below 1, and strictly above 0 as long as the exponent
\* -(T - T_IDEAL) / T_IDEAL is not below -745, where Math.exp underflows to 0.
C14_FreshnessQualityUnlessUnderflow ==
  ClearwayEvaluated =>
    \A t \in FreshnessValues \cup {Param(evCity, "T")} :
      LET Qt == FreshnessAt(evCity, t)
      IN  /\ Leq(t, Num(T_IDEAL)) => Qt = Num(1)
          /\ Lt(Num(T_IDEAL), t) =>
               /\ Leq(Num(0), Qt) /\ Lt(Qt, Num(1))
               /\ Leq(Div(Sub(t, Num(T_IDEAL)), Num(T_IDEAL)), Num(745)) => Lt(Num(0), Qt)
               /\ t = PosInf => Qt = Num(0)

C14_Witness ==
  /\ ClearwayEvaluated
  /\ Lt(Num(T_IDEAL), evCity.num.T)
  /\ Lt(Num(0), evResult.m.Qt) /\ Lt(evResult.m.Qt, Num(1))
  /\ FreshnessAt(evCity, Num(T_IDEAL)) = Num(1)
  /\ FreshnessAt(evCity, Num(1)) = Num(1)
  /\ FreshnessAt(evCity, Num(3000)) = Num(0)

\* the ClearWay scenario inputs of the Plzen preset
PlzenClearway ==
  [L |-> Num(420), coverage_pct |-> Num(60), V |-> Num(5), d |-> Num(75), T |-> Num(3),
   E |-> Num(15000), alpha |-> Frac(15, 100), delta_t |-> Frac(15, 10), Cm |-> Num(5000),
   a |-> Num(1000), b |-> Frac(10, 100)]

\* Math.abs(v - target) < tol, as the development-time assertions test
Within(v, target, tol) == Lt(Math_abs(Sub(v, target)), tol)

\* C15: the ClearWay Plzen preset (L = 420, coverage_pct = 60, V = 5, d = 75,
\* T = 3, E = 15000, alpha = 0.15, delta_t = 1.5, Cm = 5000, a = 1000, b = 0.10)
\* yields R within 0.01 of 0.60, Qt within 0.01 of 1.00, Q within 0.01 of 0.577
\* and P within 5000 of 1393763.
C15_ClearwayPlzenScenario ==
  /\ clearway_PRESET_CITIES[1].num = PlzenClearway
  /\ (ClearwayEvaluated /\ evCity.num = PlzenClearway) =>
       /\ Within(evResult.m.R, Frac(60, 100), Frac(1, 100))
       /\ Within(evResult.m.Qt, Num(1), Frac(1, 100))
       /\ Within(evResult.m.Q, Frac(577, 1000), Frac(1, 100))
       /\ Within(evResult.m.P, Num(1393763), Num(5000))

C15_Witness ==
  /\ ClearwayEvaluated
  /\ evCity.num = PlzenClearway
  /\ evResult.m.R = Frac(3, 5)
  /\ evResult.m.Qt = Num(1)
  /\ Lt(Num(1393000), evResult.m.P) /\ Lt(evResult.m.P, Num(1395000))

\* the evaluated entity is a DALRIS one and computeModel returned
DalrisEvaluated == evResult.called /\ evSlug = "dalris" /\ ~evResult.raised

\* x / 0 for the dividend's sign s: Infinity, -Infinity, or NaN for 0 / 0
OverZero(x) ==
  IF Lt(Num(0), x) THEN PosInf ELSE IF Lt(x, Num(0)) THEN NegInf ELSE NaN

C20_ParamMetaRanges ==
  (evLookup.called /\ evLookup.value.kind = "project") =>
    LET pm == paramMeta(evLookup.value.slug)
    IN  \A k \in DOMAIN pm : Leq(pm[k].min, pm[k].max) /\ Lt(Num(0), pm[k].step)

C20_Witness ==
  /\ evLookup.called
  /\ evLookup.value = ProjectValue("clearway")
  /\ DOMAIN paramMeta("clearway") = paramMetaKeys("clearway")
  /\ paramMeta("clearway").alpha.min = Frac(1, 100)
  /\ paramMeta("clearway").alpha.step = Frac(1, 100)
  /\ Lt(paramMeta("clearway").alpha.min, paramMeta("clearway").alpha.max)

\* the tabs the page offers for the project of the lookup
Offered == {tabs(PROJECT_REGISTRY[evSlug])[k] : k \in DOMAIN tabs(PROJECT_REGISTRY[evSlug])}

C6_NonFiniteShownAsDash ==
  \A s \in evShown :
    /\ ~isFinite(s.value) => s.text = Dash
    /\ s.text.str \notin {"Infinity", "-Infinity", "NaN"}

(***************************************************************************)
(* Properties of the cities API (SpecApi).                                 *)
(***************************************************************************)
\* C4: for every HTTP method, a request to /api/{slug}/cities whose slug is not
\* a registered project is answered with status 404 and performs no read or
\* write of the Entity Store.
C4_UnknownSlug404 ==
  (apiRes.handled /\ apiRes.req.slug \notin RegisteredSlugs) =>
    /\ apiRes.status = 404
    /\ apiRes.reads = 0
    /\ apiRes.writes = 0

(***************************************************************************)
(* Properties of the useCities hook (Spec).                                *)
(***************************************************************************)
\* C1: a pending debounced write for an entity A is given up only by being
\* issued or by being rescheduled for the same entity A; an edit to another
\* entity B does not cancel it.
C1_PendingWriteSurvivesOtherEdits ==
  [][debounceRef.pending =>
       \/ debounceRef'.pending /\ debounceRef'.city.id = debounceRef.city.id
       \/ /\ Len(net') = Len(net) + 1
          /\ net'[Len(net')].op = "POST"
          /\ net'[Len(net')].city = debounceRef.city]_vars

\* C2: no two POST requests issued by saveCity for the same entity id are in
\* flight at the same time.
C2_OneWriteInFlightPerEntity ==
  \A i, j \in DOMAIN net :
    (i # j /\ net[i].op = "POST" /\ net[j].op = "POST") => net[i].city.id # net[j].city.id

\* the entities the hook holds or sends: the in-memory list, the entity the
\* debounce timer will save, and the bodies of the writes in flight
HookEntities ==
  {cities[k] : k \in DOMAIN cities}
  \cup (IF debounceRef.pending THEN {debounceRef.city} ELSE {})
  \cup {net[k].city : k \in {q \in DOMAIN net : net[q].op = "POST"}}

\* of these, the entities the hook created: their ids came from uuidv4
CreatedEntities ==
  {e \in HookEntities : e.id \in {uuidv4(n) : n \in 0..(uuidCount - 1)}}

\* updateParam leaves every entity of the list with the keys it had and, at
\* most, one more key of the project's paramMeta
UpdateParamAddsOnlyMetaKeys ==
  [][editCount' # editCount =>
       \A k \in DOMAIN cities' :
         ParamKeys(cities'[k]) \subseteq ParamKeys(cities[k]) \cup paramMetaKeys(projectSlug)]_vars

\* C7 as stated: every key of an entity the program created or mutated, other
\* than id and name, is a key of the project's paramMeta.
C7_KeysSubsetOfParamMeta ==
  /\ [](\A e \in CreatedEntities : ParamKeys(e) \subseteq paramMetaKeys(projectSlug))
  /\ UpdateParamAddsOnlyMetaKeys

\* C7, amended: every key of an entity the program created, other than id and
\* name, is a key of the project's paramMeta or, for DALRIS, the key "tiers",
\* also after updateParam has edited the entity; and updateParam adds no key
\* outside paramMeta to any entity.
C7_KeysWithinParamMetaAndTiers ==
  /\ [](\A e \in CreatedEntities :
          ParamKeys(e) \ paramMetaKeys(projectSlug)
            \subseteq (IF projectSlug = "dalris" THEN {"tiers"} ELSE {}))
  /\ UpdateParamAddsOnlyMetaKeys

\* a DALRIS entity created by the hook and then edited by updateParam holds tiers
C7_Witness ==
  /\ projectSlug = "dalris"
  /\ \E k \in DOMAIN cities :
       /\ cities[k].id = uuidv4(0)
       /\ "tiers" \in ParamKeys(cities[k])
       /\ cities[k].num["L_base"] # presetCities(projectSlug)[1].num["L_base"]
       /\ debounceRef = TimerFor(cities[k])

\* ids updateParam may be called with: every id the model knows, and one none holds
CallIds ==
  {UuidNames[k] : k \in DOMAIN UuidNames} \cup {StoredIds[k] : k \in DOMAIN StoredIds}
  \cup {"no-such-id"}

\* a and b are the same entity but for one parameter key, which b holds
DiffersInOneKey(a, b) ==
  /\ b.id = a.id /\ b.name = a.name /\ b.tiers = a.tiers
  /\ \E key \in paramMetaKeys(projectSlug) :
       /\ DOMAIN b.num = DOMAIN a.num \cup {key}
       /\ \A q \in DOMAIN a.num \ {key} : b.num[q] = a.num[q]

\* an updateParam step: the entity with the id changes in one key, nothing
\* else of the list does, and a write of the changed entity is scheduled
UpdateParamSetsOneKey ==
  [][editCount' # editCount =>
       /\ DOMAIN cities' = DOMAIN cities
       /\ \A k \in DOMAIN cities :
            IF cities[k].id = activeCityId
            THEN DiffersInOneKey(cities[k], cities'[k])
            ELSE cities'[k] = cities[k]
       /\ activeCityId' = activeCityId
       /\ debounceRef'.pending
       /\ debounceRef'.city = cities'[FindIndex(cities', activeCityId)]]_vars

\* updateParam with an id no entity of the list holds: the list is returned
\* as it was and nothing is handed to debouncedSave
UpdateParamNoMatch ==
  \A id \in CallIds :
    (\A k \in DOMAIN cities : cities[k].id # id) =>
      \A key \in EditKeys(projectSlug) : \A value \in EditValues(projectSlug, key) :
        LET r == updateParam(cities, id, key, value)
        IN  r.cities = cities /\ ~r.found

\* C17: updateParam(cityId, key, value) sets exactly that key of exactly that
\* entity: every other entity, every other key of the same entity, the order of
\* the list and activeCityId are unchanged; when cityId matches no entity the
\* list is unchanged and no write is scheduled.
C17_UpdateParamExactlyOneKey ==
  /\ UpdateParamSetsOneKey
  /\ [](citiesIsArray => UpdateParamNoMatch)

\* an edited active entity with its write pending, next to an entity the edit
\* was not for
C17_Witness ==
  /\ editCount > 0
  /\ Len(cities) >= 2
  /\ debounceRef.pending
  /\ debounceRef.city.id = activeCityId
  /\ \E k \in DOMAIN cities :
       /\ cities[k] = debounceRef.city
       /\ \E key \in EditKeys(projectSlug) :
            cities[k].num[key] = paramMeta(projectSlug)[key].max
       /\ \E j \in DOMAIN cities :
            /\ j # k
            /\ \A key \in EditKeys(projectSlug) :
                 key \in DOMAIN cities[j].num =>
                   cities[j].num[key] \notin EditValues(projectSlug, key)
       /\ UpdateParamNoMatch

\* the calls of kind op and origin in flight
CallsOf(n, op, origin) == {k \in DOMAIN n : n[k].op = op /\ n[k].origin = origin}

\* the first preset of the project, read from the model's own PRESET_CITIES
FirstPreset ==
  IF projectSlug = "clearway" THEN clearway_PRESET_CITIES[1] ELSE dalris_PRESET_CITIES[1]

\* the ids the store, the list and the calls in flight hold
KnownIds ==
  {db[k].city.id : k \in DOMAIN db} \cup {cities[k].id : k \in DOMAIN cities}
  \cup {net[k].city.id : k \in {q \in DOMAIN net : net[q].op = "POST"}}

\* the response of the initial fetch is delivered in this step
FetchDelivered == CallsOf(net, "GET", "mount") # {} /\ CallsOf(net', "GET", "mount") = {}

\* a load that finds at least one entity creates none and makes the first
\* returned entity active; a load that finds zero entities creates exactly one
\* entity from presetCities[0] with a fresh id and sends it to be saved; no
\* other step seeds
SeedingOnLoad ==
  [][/\ FetchDelivered =>
          LET c == net[CHOOSE k \in CallsOf(net, "GET", "mount") : TRUE]
          IN  /\ (c.phase = "answered" /\ c.isList /\ c.data # <<>>) =>
                   /\ uuidCount' = uuidCount
                   /\ CallsOf(net', "POST", "seed") = {}
                   /\ activeCityId' = c.data[1].id
                   /\ [k \in DOMAIN cities' |-> cities'[k].id] =
                        [k \in DOMAIN c.data |-> c.data[k].id]
              /\ (c.phase = "answered" /\ c.isList /\ c.data = <<>>) =>
                   /\ uuidCount' = uuidCount + 1
                   /\ Cardinality(CallsOf(net', "POST", "seed")) = 1
                   /\ \A k \in CallsOf(net', "POST", "seed") :
                        /\ net'[k].city = WithId(FirstPreset, net'[k].city.id)
                        /\ net'[k].city.id \notin KnownIds
     /\ CallsOf(net', "POST", "seed") \ CallsOf(net, "POST", "seed") # {} =>
          /\ FetchDelivered
          /\ \A k \in CallsOf(net, "GET", "mount") :
               net[k].phase = "answered" /\ net[k].isList /\ net[k].data = <<>>]_vars

\* the response of the seed's save is delivered in this step
SeedSaveDelivered ==
  CallsOf(net, "POST", "seed") # {} /\ CallsOf(net', "POST", "seed") = {}

SeedCall == net[CHOOSE k \in CallsOf(net, "POST", "seed") : TRUE]

\* the seeded entity is stored, listed and active after the step
SeedPersistedAndActive ==
  /\ \E k \in DOMAIN db' : db'[k].slug = projectSlug /\ db'[k].city = SeedCall.city
  /\ \E k \in DOMAIN cities' : cities'[k] = SeedCall.city
  /\ activeCityId' = SeedCall.city.id

Stored(value) == {storage_storageGet(value)[k] : k \in DOMAIN storage_storageGet(value)}

\* invocation i completes a POST upsert in this step
PostCompletes(i) ==
  /\ i \in DOMAIN invocations
  /\ invocations[i].req.method = "POST"
  /\ invocations[i].pc = "read" /\ invocations'[i].pc = "done"
  /\ invocations'[i].status = 200

\* every request received was a POST, each for another entity, and each has
\* returned 200
DistinctPostsCompleted ==
  /\ Len(invocations) >= 2
  /\ \A i \in DOMAIN invocations :
       /\ invocations[i].req.method = "POST"
       /\ invocations[i].pc = "done" /\ invocations[i].status = 200
  /\ \A i, j \in DOMAIN invocations :
       i # j => invocations[i].req.city.id # invocations[j].req.city.id

\* C18: saves of different entities are independent: a POST upsert of entity A
\* leaves every other stored entity unchanged, also when the POSTs for two
\* different entities A and B are handled concurrently, so that after both
\* complete the store contains both A and B with the posted values.
C18_SavesIndependent ==
  /\ [][\A i \in DOMAIN invocations :
          PostCompletes(i) =>
            \A e \in Stored(kv) : e.id # invocations[i].req.city.id => e \in Stored(kv')]_vars
  /\ [](DistinctPostsCompleted =>
          \A i \in DOMAIN invocations : invocations[i].req.city \in Stored(kv))

\* no two entities of the list share an id
UniqueIds(list) == \A i, j \in DOMAIN list : list[i].id = list[j].id => i = j

\* invocation i returns 200 in this step, from the program point pc
Completes(i, pc) ==
  /\ i \in DOMAIN invocations
  /\ invocations[i].pc = pc /\ invocations'[i].pc = "done"
  /\ invocations'[i].status = 200

\* nothing was stored between the read of invocation i and this step: the
\* request is handled as if alone
HandledAlone(i) == invocations[i].cities = storage_storageGet(kv)

\* C22: the cities API keeps ids unique under upsert: a POST whose city.id
\* already exists replaces that entry in place, a POST with a new id appends one
\* entry, a DELETE removes every entry with the given id (and is a no-op
\* returning 200 when none exists); after any sequence of POST and DELETE
\* requests handled one at a time, no two stored entities share an id and each
\* response body equals the stored list.
C22_UpsertKeepsIdsUnique ==
  /\ [](UniqueIds(storage_storageGet(kv)))
  /\ [][\A i \in DOMAIN invocations :
          /\ (Completes(i, "read") /\ HandledAlone(i)) =>
               LET before == storage_storageGet(kv)
                   after  == storage_storageGet(kv')
                   req    == invocations[i].req
               IN  /\ invocations'[i].isList /\ invocations'[i].body = after
                   /\ req.method = "POST" =>
                        IF \E k \in DOMAIN before : before[k].id = req.city.id
                        THEN /\ Len(after) = Len(before)
                             /\ \A k \in DOMAIN before :
                                  after[k] = IF before[k].id = req.city.id THEN req.city
                                             ELSE before[k]
                        ELSE after = Append(before, req.city)
                   /\ req.method = "DELETE" =>
                        /\ \A k \in DOMAIN after : after[k].id # req.id
                        /\ after = SelectSeq(before, LAMBDA c : c.id # req.id)
                        /\ (\A k \in DOMAIN before : before[k].id # req.id) => after = before
          /\ Completes(i, "start") =>
               /\ invocations[i].req.method = "GET"
               /\ invocations'[i].body = storage_storageGet(kv) /\ kv' = kv]_vars

\* two entities stored, the first then replaced in place by a later POST
C22_Witness ==
  /\ Len(invocations) = 3
  /\ \A i \in DOMAIN invocations :
       invocations[i].req.method = "POST" /\ invocations[i].pc = "done"
         /\ invocations[i].status = 200
  /\ invocations[1].req.city = WithId(clearway_PRESET_CITIES[1], "c1")
  /\ invocations[2].req.city = WithId(clearway_PRESET_CITIES[1], "c2")
  /\ invocations[3].req.city = WithId(clearway_PRESET_CITIES[2], "c1")
  /\ storage_storageGet(kv) = <<invocations[3].req.city, invocations[2].req.city>>
  /\ invocations[3].body = storage_storageGet(kv)

(***************************************************************************)
(* Properties of the storage in file mode (SpecFile).                      *)
(***************************************************************************)
\* C23: in file mode (no KV configured), a storageGet that follows a completed
\* storageSet(cities) returns cities, including when the filesystem write fails
\* and the in-memory fallback store is used, and storageSet never makes the API
\* return 500 because of a read-only filesystem.
C23_FileModeReadsBackWhatWasSet ==
  /\ [][(fileRes.handled /\ fileRes.wrote /\ fileRes'.req.method = "GET") =>
          fileRes'.body = fileRes.body]_vars
  /\ [](fileRes.handled => fileRes.status # 500)

(***************************************************************************)
(* Further properties of the useCities hook (Spec).                        *)
(***************************************************************************)
IdsOf(list) == {list[k].id : k \in DOMAIN list}
StoreIds(st) == {st[k].city.id : k \in DOMAIN st}

\* the entity id is in neither the store nor the list, and no deleteCity(id)
\* is still in progress
Gone(id) ==
  /\ id \notin StoreIds(db) /\ id \notin IdsOf(cities)
  /\ \A k \in DOMAIN net : ~(net[k].op = "DELETE" /\ net[k].id = id)

\* this step is the server handling, or the hook receiving the response of,
\* an addCity or seed save of the entity id
ExplicitlyAdded(id) ==
  \E k \in DOMAIN net :
    /\ net[k].op = "POST" /\ net[k].origin \in {"addCity", "seed"} /\ net[k].city.id = id
    /\ \/ net[k].phase = "sent" /\ k \in DOMAIN net' /\ net'[k].phase = "answered"
       \/ net[k].phase = "answered" /\ Len(net') < Len(net)

\* C24: once deleteCity(id) has completed, the entity id stays absent from the
\* Entity Store and from the in-memory list until it is explicitly added again;
\* in particular a debounced write that was pending for that entity when it was
\* deleted does not re-create it.
C24_DeletedStaysDeleted ==
  [][\A id \in CallIds :
       (Gone(id) /\ (id \in StoreIds(db') \/ id \in IdsOf(cities'))) => ExplicitlyAdded(id)]_vars

\* this step applies the response of a saveCity call
SaveResponseApplied == \E i \in DOMAIN net : net[i].op = "POST" /\ net' = RemoveAt(net, i)

\* the edit whose debounced write is still pending is the latest value of its
\* entity in the in-memory list
PendingEditKept ==
  (debounceRef.pending /\ \E k \in DOMAIN cities : cities[k] = debounceRef.city)
    => \E k \in DOMAIN cities' : cities'[k] = debounceRef.city

\* C25: a save response never reverts an in-memory edit: when an entity is
\* edited while an earlier save is in flight, the in-memory value after the
\* response is applied is still the latest edit, and no entity of the
\* in-memory list is dropped by the response.
C25_SaveResponseKeepsEdits ==
  [][SaveResponseApplied => (PendingEditKept /\ IdsOf(cities) \subseteq IdsOf(cities'))]_vars

\* a saveCity request has been sent and its caller has not yet continued
SaveInFlight == \E k \in DOMAIN net : net[k].op = "POST"

\* C26: the saving flag is true whenever a debounced write is pending or a
\* save request is in flight, and false only when neither is the case.
C26_SavingFlag == saving <=> (debounceRef.pending \/ SaveInFlight)

\* C27: once loading has finished, whenever activeCityId is non-null it is the
\* id of an entity in the in-memory list, after any sequence of addCity,
\* deleteCity, updateParam and setActiveCityId, including when a response is a
\* failure or not a list.
C27_ActiveIdInList == loaded => (activeCityId = NoId \/ activeCityId \in IdsOf(cities))

(***************************************************************************)
(* The inline input of ParamSlider (src/pages/_document.tsx).              *)
(***************************************************************************)
PERCENT_PARAMS == {"alpha", "b"}

\* factor = 1e10 = FactorRoot * FactorRoot
FactorRoot == 100000

\* fromDisplayValue(paramKey, raw), on the number parseFloat reads from raw
\* (NaN when raw holds no number)
fromDisplayValue(paramKey, typed) ==
  IF ~isFinite(typed) THEN NaN
  ELSE IF paramKey \in PERCENT_PARAMS THEN Div(typed, Num(100))
  ELSE typed

\* Math.round(Math.round(val / step * factor) / factor) * step: with
\* val / step = i + r/d, the inner rounding gives i + K/factor where
\* K = floor(r/d * factor + 1/2), and the outer one adds 1 to i exactly when
\* K >= factor/2, that is when factor * (d - 2r) <= d
snapToStep(val, step) ==
  LET x == Div(val, step)
  IN  IF ~isFinite(x) THEN Mul(x, step)
      ELSE LET i  == x.n \div x.d
               r  == x.n - i * x.d
               up == IF x.d - 2 * r <= 0 THEN TRUE
                     ELSE ((x.d \div (x.d - 2 * r)) \div FactorRoot) \div FactorRoot >= 1
           IN  Mul(Num(i + (IF up THEN 1 ELSE 0)), step)

\* commitInput(raw): whether onUpdate is called, and the value it is given
commitInput(meta, paramKey, typed) ==
  LET parsed == fromDisplayValue(paramKey, typed)
  IN  IF ~isFinite(parsed) THEN [called |-> FALSE, value |-> NaN]
      ELSE LET clamped == Math_max(meta.min, Math_min(meta.max, parsed))
           IN  [called |-> TRUE, value |-> snapToStep(clamped, meta.step)]

\* what is typed into the input of a parameter, in the unit it is shown in:
\* its bounds, a step beyond each bound, and a text that holds no number
TypedInputs(meta, paramKey) ==
  LET scale == IF paramKey \in PERCENT_PARAMS THEN Num(100) ELSE Num(1)
  IN  {Mul(v, scale) : v \in {meta.min, meta.max, Sub(meta.min, meta.step), Add(meta.max, meta.step)}}
        \cup {NaN}

\* C28: for every parameter of every project and every number typed into the
\* inline input, the value commitInput passes to onUpdate lies within the
\* parameter's [min, max]; an input that is not a number commits nothing.
C28_CommitInputWithinRange ==
  (evLookup.called /\ evLookup.value.kind = "project") =>
    LET pm == paramMeta(evLookup.value.slug)
    IN  \A k \in DOMAIN pm : \A typed \in TypedInputs(pm[k], k) :
          LET r == commitInput(pm[k], k, typed)
          IN  IF isFinite(typed)
              THEN r.called /\ Leq(pm[k].min, r.value) /\ Leq(r.value, pm[k].max)
              ELSE ~r.called

(***************************************************************************)
(* Further properties of the cities API (SpecApi).                         *)
(***************************************************************************)
\* the request this step answers has no city or no city.id (POST), or no id
\* in its query (DELETE)
Incomplete(req) ==
  \/ req.method = "POST" /\ (~req.hasCity \/ req.city.id = "")
  \/ req.method = "DELETE" /\ (~req.hasId \/ req.id = "")

\* C29: the cities API changes the store only on a valid request: a POST
\* without city or city.id and a DELETE without an id are answered 400, any
\* method other than GET, POST and DELETE 405, a storage exception 500, and in
\* each of these cases the stored entities are unchanged.
C29_StoreChangesOnlyOnValidRequest ==
  [][(apiRes'.handled /\ apiRes'.status # 404) =>
       LET req == apiRes'.req
       IN  /\ Incomplete(req) => apiRes'.status = 400
           /\ req.method \notin {"GET", "POST", "DELETE"} => apiRes'.status = 405
           /\ (req.throwAt # 0 /\ ~Incomplete(req)) => apiRes'.status = 500
           /\ apiRes'.status \in {400, 405, 500} => db' = db]_vars

(***************************************************************************)
(* Liveness of the mount effect (SpecLive).                                *)
(***************************************************************************)
\* C30: for a registered project, loaded eventually becomes true after mount,
\* whether the fetch returns entities, an empty list (the seeding path, also
\* when the seed save fails), an error body, or is rejected.
C30_LoadedEventually == <>loaded

\* the seeding path ended with a seed save that failed
C30_Witness ==
  /\ loaded /\ net = <<>> /\ cities = <<>>
  /\ uuidCount = 1 /\ faultCount = 1 /\ StoreIds(db) = {}

====
